---- MODULE Spec2Model ----
(***************************************************************************)
(* Model of beluga-core: the build-time B+ tree (src/src/tree.rs), the     *)
(* dictionary builder (src/src/beluga.rs), the paged queries over the      *)
(* persisted tree (src/src/dictionary.rs) and the node cache               *)
(* (src/src/lru.rs).                                                       *)
(*                                                                         *)
(* Strings are sequences of byte codes (65 = 'A', 97 = 'a', ...).  An      *)
(* Option is a sequence of length 0 (None) or 1 (Some).  A pointer to a    *)
(* heap node is its index in an arena sequence; 0 is the null pointer.     *)
(***************************************************************************)
EXTENDS Integers, Sequences, FiniteSets, Bags, TLC

VARIABLES tree, token_tree, entry_num, inserted, phase, file, cache, res

vars == <<tree, token_tree, entry_num, inserted, phase, file, cache, res>>

(***************************************************************************)
(* Bounds of the model.                                                    *)
(***************************************************************************)
\* Number of input_entry calls before save.
MaxInserts == 4
\* Length in bytes of the serialized metadata JSON written by save.
MetadataLen == 80

\* Tree::new(index_size_limit, leaf_size_limit): the pairs of limits
\* explored.  With the records of EntryPairs a leaf of limit 50 holds 3
\* records, a leaf of limit 39 holds 2 and a leaf of limit 36 holds 1; an
\* index node of limit 60 splits when it gets its third record.
SizeLimits == { <<65536, 50>>, <<65536, 39>>, <<60, 36>> }

(***************************************************************************)
(* Strings and orderings.                                                  *)
(***************************************************************************)
\* char::to_lowercase on an ASCII byte.
LowerByte(b) == IF b >= 65 /\ b <= 90 THEN b + 32 ELSE b

\* str::to_lowercase.
to_lowercase(s) == [i \in 1..Len(s) |-> LowerByte(s[i])]

\* EntryKey::smooth.
smooth(key) == to_lowercase(key)

\* String::cmp: lexicographic byte comparison.
RECURSIVE cmp(_, _)
cmp(a, b) ==
    IF a = <<>> THEN (IF b = <<>> THEN "Equal" ELSE "Less")
    ELSE IF b = <<>> THEN "Greater"
    ELSE IF a[1] < b[1] THEN "Less"
    ELSE IF a[1] > b[1] THEN "Greater"
    ELSE cmp(Tail(a), Tail(b))

is_le(cr) == cr \in {"Less", "Equal"}
is_ge(cr) == cr \in {"Greater", "Equal"}

\* str::starts_with.
starts_with(s, p) == Len(p) <= Len(s) /\ SubSeq(s, 1, Len(p)) = p

\* Vec::insert at a 0-based index.
VecInsert(v, idx, x) == SubSeq(v, 1, idx) \o <<x>> \o SubSeq(v, idx + 1, Len(v))

(***************************************************************************)
(* Record and Node (tree.rs).                                              *)
(***************************************************************************)
\* Record::new: a separator, without value.
Record_new(key) == [key |-> key, value |-> <<>>]

\* Record::with_value.
Record_with_value(key, value) == [key |-> key, value |-> <<value>>]

\* Record::size.
Record_size(rec) ==
    Len(rec.key) + 4 + (IF rec.value # <<>> THEN Len(rec.value[1]) + 4 ELSE 0)

\* Node::new.
Node_new(is_leaf) ==
    [is_leaf |-> is_leaf, records |-> <<>>, children |-> <<>>,
     parent |-> 0, offset |-> 0, zip_size |-> 0]

RECURSIVE SumRecordSizes(_)
SumRecordSizes(records) ==
    IF records = <<>> THEN 0
    ELSE Record_size(Head(records)) + SumRecordSizes(Tail(records))

\* Node::size.
Node_size(node) ==
    1 + 4 + SumRecordSizes(node.records)
      + (IF node.is_leaf THEN 8 + 4 ELSE (8 + 4) * Len(node.children))

\* The comparison of index_of: a leaf smooths the record's key, an index
\* node compares the stored separator as it is.
KeyCmp(is_leaf, key, rec_key) ==
    IF is_leaf THEN cmp(key, smooth(rec_key)) ELSE cmp(key, rec_key)

\* The loop of Node::index_of; li, mi, hi are 0-based.
RECURSIVE IndexOfLoop(_, _, _, _, _)
IndexOfLoop(records, is_leaf, key, li, hi) ==
    LET mi == (hi + li) \div 2
        cr == KeyCmp(is_leaf, key, records[mi + 1].key)
    IN  IF hi = li THEN <<hi, cr>>
        ELSE IF hi - li = 1 THEN
            IF mi = li THEN
                IF is_le(cr) THEN <<li, cr>>
                ELSE <<hi, KeyCmp(is_leaf, key, records[hi + 1].key)>>
            ELSE <<li, cr>>
        ELSE IF cr = "Less" THEN IndexOfLoop(records, is_leaf, key, li, mi)
        ELSE IF cr = "Greater" THEN IndexOfLoop(records, is_leaf, key, mi, hi)
        ELSE <<mi, cr>>

\* Node::index_of on a node with at least one record (records.len() - 1
\* underflows on an empty node: the callers below treat that as a panic).
index_of(node, key) ==
    IndexOfLoop(node.records, node.is_leaf, smooth(key), 0, Len(node.records) - 1)

\* Node::child_index_of(...).unwrap(), 0-based.
child_index_of(node, child) ==
    (CHOOSE i \in 1..Len(node.children) :
        /\ node.children[i] = child
        /\ \A j \in 1..(i - 1) : node.children[j] # child) - 1

(***************************************************************************)
(* Tree (tree.rs).                                                         *)
(***************************************************************************)
\* Tree::new.
Tree_new(index_size_limit, leaf_size_limit) ==
    [nodes |-> <<Node_new(TRUE)>>, root |-> 1, leaves |-> <<1>>, node_num |-> 1,
     index_size_limit |-> index_size_limit, leaf_size_limit |-> leaf_size_limit]

\* The descent loop of Tree::insert: from node_ptr down to a leaf.
RECURSIVE Descend(_, _, _)
Descend(nodes, node_ptr, key) ==
    LET node == nodes[node_ptr]
    IN  IF node.is_leaf THEN node_ptr
        ELSE LET r == index_of(node, key)
                 child_idx == IF is_le(r[2]) THEN r[1] ELSE r[1] + 1
             IN  Descend(nodes, node.children[child_idx + 1], key)

\* A variant of SplitLeaf that does not push the new leaf onto the leaves
\* list.
SplitLeaf_ForgetsLeaf(t, div_node_ptr) ==
    LET div_node == t.nodes[div_node_ptr]
        div_idx == Len(div_node.records) \div 2
        right_records == SubSeq(div_node.records, div_idx + 1, Len(div_node.records))
        left_records == SubSeq(div_node.records, 1, div_idx)
        new_node_ptr == Len(t.nodes) + 1
        new_parent_key == smooth(left_records[div_idx].key)
    IN  IF div_node.parent # 0 THEN
            LET parent == div_node.parent
                pnode == t.nodes[parent]
                child_idx == child_index_of(pnode, div_node_ptr)
                new_node == [Node_new(TRUE) EXCEPT !.records = right_records,
                                                   !.parent = parent]
                nodes1 == [t.nodes EXCEPT
                    ![div_node_ptr].records = left_records,
                    ![parent].records = VecInsert(@, child_idx, Record_new(new_parent_key)),
                    ![parent].children = VecInsert(@, child_idx + 1, new_node_ptr)]
            IN  [t |-> [t EXCEPT !.nodes = Append(nodes1, new_node),
                                 !.node_num = @ + 1],
                 next |-> parent]
        ELSE
            LET pnode_ptr == Len(t.nodes) + 2
                new_node == [Node_new(TRUE) EXCEPT !.records = right_records,
                                                   !.parent = pnode_ptr]
                pnode == [Node_new(FALSE) EXCEPT
                    !.records = <<Record_new(new_parent_key)>>,
                    !.children = <<div_node_ptr, new_node_ptr>>]
                nodes1 == [t.nodes EXCEPT
                    ![div_node_ptr].records = left_records,
                    ![div_node_ptr].parent = pnode_ptr]
            IN  [t |-> [t EXCEPT !.nodes = nodes1 \o <<new_node, pnode>>,
                                 !.node_num = @ + 1,
                                 !.root = pnode_ptr],
                 next |-> 0]

\* One leaf split of Tree::insert; the result is the tree and the pointer
\* the loop continues with (0 when the loop breaks).
SplitLeaf(t, div_node_ptr) ==
    LET div_node == t.nodes[div_node_ptr]
        div_idx == Len(div_node.records) \div 2
        right_records == SubSeq(div_node.records, div_idx + 1, Len(div_node.records))
        left_records == SubSeq(div_node.records, 1, div_idx)
        new_node_ptr == Len(t.nodes) + 1
        new_parent_key == smooth(left_records[div_idx].key)
    IN  IF div_node.parent # 0 THEN
            LET parent == div_node.parent
                pnode == t.nodes[parent]
                child_idx == child_index_of(pnode, div_node_ptr)
                new_node == [Node_new(TRUE) EXCEPT !.records = right_records,
                                                   !.parent = parent]
                nodes1 == [t.nodes EXCEPT
                    ![div_node_ptr].records = left_records,
                    ![parent].records = VecInsert(@, child_idx, Record_new(new_parent_key)),
                    ![parent].children = VecInsert(@, child_idx + 1, new_node_ptr)]
            IN  [t |-> [t EXCEPT !.nodes = Append(nodes1, new_node),
                                 !.leaves = Append(@, new_node_ptr),
                                 !.node_num = @ + 1],
                 next |-> parent]
        ELSE
            LET pnode_ptr == Len(t.nodes) + 2
                new_node == [Node_new(TRUE) EXCEPT !.records = right_records,
                                                   !.parent = pnode_ptr]
                pnode == [Node_new(FALSE) EXCEPT
                    !.records = <<Record_new(new_parent_key)>>,
                    !.children = <<div_node_ptr, new_node_ptr>>]
                nodes1 == [t.nodes EXCEPT
                    ![div_node_ptr].records = left_records,
                    ![div_node_ptr].parent = pnode_ptr]
            IN  [t |-> [t EXCEPT !.nodes = nodes1 \o <<new_node, pnode>>,
                                 !.leaves = Append(@, new_node_ptr),
                                 !.node_num = @ + 1,
                                 !.root = pnode_ptr],
                 next |-> 0]

\* A variant of SplitIndex that leaves the parent of the moved children as
\* it was.
SplitIndex_KeepsParents(t, div_node_ptr) ==
    LET div_node == t.nodes[div_node_ptr]
        div_idx == Len(div_node.records) \div 2 + 1
        right_records == SubSeq(div_node.records, div_idx + 1, Len(div_node.records))
        precord == div_node.records[div_idx]
        left_records == SubSeq(div_node.records, 1, div_idx - 1)
        right_children == SubSeq(div_node.children, div_idx + 1, Len(div_node.children))
        left_children == SubSeq(div_node.children, 1, div_idx)
        new_node_ptr == Len(t.nodes) + 1
        moved == {right_children[i] : i \in 1..Len(right_children)}
    IN  IF div_node.parent # 0 THEN
            LET parent == div_node.parent
                pnode == t.nodes[parent]
                child_idx == child_index_of(pnode, div_node_ptr)
                new_node == [Node_new(FALSE) EXCEPT !.records = right_records,
                                                    !.children = right_children,
                                                    !.parent = parent]
                nodes1 == [p \in DOMAIN t.nodes |->
                    IF p = div_node_ptr THEN
                        [div_node EXCEPT !.records = left_records,
                                         !.children = left_children]
                    ELSE IF p = parent THEN
                        [pnode EXCEPT !.records = VecInsert(@, child_idx, precord),
                                      !.children = VecInsert(@, child_idx + 1, new_node_ptr)]
                    ELSE t.nodes[p]]
            IN  [t |-> [t EXCEPT !.nodes = Append(nodes1, new_node),
                                 !.node_num = @ + 1],
                 next |-> parent]
        ELSE
            LET pnode_ptr == Len(t.nodes) + 2
                new_node == [Node_new(FALSE) EXCEPT !.records = right_records,
                                                    !.children = right_children,
                                                    !.parent = pnode_ptr]
                pnode == [Node_new(FALSE) EXCEPT
                    !.records = <<precord>>,
                    !.children = <<div_node_ptr, new_node_ptr>>]
                nodes1 == [p \in DOMAIN t.nodes |->
                    IF p = div_node_ptr THEN
                        [div_node EXCEPT !.records = left_records,
                                         !.children = left_children,
                                         !.parent = pnode_ptr]
                    ELSE t.nodes[p]]
            IN  [t |-> [t EXCEPT !.nodes = nodes1 \o <<new_node, pnode>>,
                                 !.node_num = @ + 1,
                                 !.root = pnode_ptr],
                 next |-> 0]

\* A variant of SplitIndex that hangs the moved children under the new
\* root when the root is split.
SplitIndex_LiftsChildren(t, div_node_ptr) ==
    LET div_node == t.nodes[div_node_ptr]
        div_idx == Len(div_node.records) \div 2 + 1
        right_records == SubSeq(div_node.records, div_idx + 1, Len(div_node.records))
        precord == div_node.records[div_idx]
        left_records == SubSeq(div_node.records, 1, div_idx - 1)
        right_children == SubSeq(div_node.children, div_idx + 1, Len(div_node.children))
        left_children == SubSeq(div_node.children, 1, div_idx)
        new_node_ptr == Len(t.nodes) + 1
        moved == {right_children[i] : i \in 1..Len(right_children)}
    IN  IF div_node.parent # 0 THEN
            LET parent == div_node.parent
                pnode == t.nodes[parent]
                child_idx == child_index_of(pnode, div_node_ptr)
                new_node == [Node_new(FALSE) EXCEPT !.records = right_records,
                                                    !.children = right_children,
                                                    !.parent = parent]
                nodes1 == [p \in DOMAIN t.nodes |->
                    IF p = div_node_ptr THEN
                        [div_node EXCEPT !.records = left_records,
                                         !.children = left_children]
                    ELSE IF p = parent THEN
                        [pnode EXCEPT !.records = VecInsert(@, child_idx, precord),
                                      !.children = VecInsert(@, child_idx + 1, new_node_ptr)]
                    ELSE IF p \in moved THEN [t.nodes[p] EXCEPT !.parent = new_node_ptr]
                    ELSE t.nodes[p]]
            IN  [t |-> [t EXCEPT !.nodes = Append(nodes1, new_node),
                                 !.node_num = @ + 1],
                 next |-> parent]
        ELSE
            LET pnode_ptr == Len(t.nodes) + 2
                new_node == [Node_new(FALSE) EXCEPT !.records = right_records,
                                                    !.children = right_children,
                                                    !.parent = pnode_ptr]
                pnode == [Node_new(FALSE) EXCEPT
                    !.records = <<precord>> \o right_records,
                    !.children = <<div_node_ptr>> \o right_children]
                nodes1 == [p \in DOMAIN t.nodes |->
                    IF p = div_node_ptr THEN
                        [div_node EXCEPT !.records = left_records,
                                         !.children = left_children,
                                         !.parent = pnode_ptr]
                    ELSE IF p \in moved THEN [t.nodes[p] EXCEPT !.parent = pnode_ptr]
                    ELSE t.nodes[p]]
            IN  [t |-> [t EXCEPT !.nodes = nodes1 \o <<new_node, pnode>>,
                                 !.node_num = @ + 1,
                                 !.root = pnode_ptr],
                 next |-> 0]

\* A variant of SplitIndex that leaves the children of the moved records
\* with the node that is split.
SplitIndex_KeepsChildren(t, div_node_ptr) ==
    LET div_node == t.nodes[div_node_ptr]
        div_idx == Len(div_node.records) \div 2 + 1
        new_node == [Node_new(FALSE) EXCEPT
            !.records = SubSeq(div_node.records, div_idx + 1, Len(div_node.records)),
            !.parent = IF div_node.parent # 0 THEN div_node.parent ELSE Len(t.nodes) + 2]
        pnode == [Node_new(FALSE) EXCEPT
            !.records = <<div_node.records[div_idx]>>,
            !.children = <<div_node_ptr, Len(t.nodes) + 1>>]
    IN  IF div_node.parent # 0 THEN
            [t |-> [t EXCEPT
                 !.nodes = Append([@ EXCEPT
                     ![div_node_ptr].records = SubSeq(@, 1, div_idx - 1),
                     ![div_node.parent].records =
                         VecInsert(@, child_index_of(t.nodes[div_node.parent], div_node_ptr),
                                   div_node.records[div_idx]),
                     ![div_node.parent].children =
                         VecInsert(@, child_index_of(t.nodes[div_node.parent], div_node_ptr) + 1,
                                   Len(t.nodes) + 1)], new_node),
                 !.node_num = @ + 1],
             next |-> div_node.parent]
        ELSE
            [t |-> [t EXCEPT
                 !.nodes = [@ EXCEPT
                     ![div_node_ptr].records = SubSeq(@, 1, div_idx - 1),
                     ![div_node_ptr].parent = Len(t.nodes) + 2] \o <<new_node, pnode>>,
                 !.node_num = @ + 1,
                 !.root = Len(t.nodes) + 2],
             next |-> 0]

\* One index split of Tree::insert.
SplitIndex(t, div_node_ptr) ==
    LET div_node == t.nodes[div_node_ptr]
        div_idx == Len(div_node.records) \div 2 + 1
        right_records == SubSeq(div_node.records, div_idx + 1, Len(div_node.records))
        precord == div_node.records[div_idx]
        left_records == SubSeq(div_node.records, 1, div_idx - 1)
        right_children == SubSeq(div_node.children, div_idx + 1, Len(div_node.children))
        left_children == SubSeq(div_node.children, 1, div_idx)
        new_node_ptr == Len(t.nodes) + 1
        moved == {right_children[i] : i \in 1..Len(right_children)}
    IN  IF div_node.parent # 0 THEN
            LET parent == div_node.parent
                pnode == t.nodes[parent]
                child_idx == child_index_of(pnode, div_node_ptr)
                new_node == [Node_new(FALSE) EXCEPT !.records = right_records,
                                                    !.children = right_children,
                                                    !.parent = parent]
                nodes1 == [p \in DOMAIN t.nodes |->
                    IF p = div_node_ptr THEN
                        [div_node EXCEPT !.records = left_records,
                                         !.children = left_children]
                    ELSE IF p = parent THEN
                        [pnode EXCEPT !.records = VecInsert(@, child_idx, precord),
                                      !.children = VecInsert(@, child_idx + 1, new_node_ptr)]
                    ELSE IF p \in moved THEN [t.nodes[p] EXCEPT !.parent = new_node_ptr]
                    ELSE t.nodes[p]]
            IN  [t |-> [t EXCEPT !.nodes = Append(nodes1, new_node),
                                 !.node_num = @ + 1],
                 next |-> parent]
        ELSE
            LET pnode_ptr == Len(t.nodes) + 2
                new_node == [Node_new(FALSE) EXCEPT !.records = right_records,
                                                    !.children = right_children,
                                                    !.parent = pnode_ptr]
                pnode == [Node_new(FALSE) EXCEPT
                    !.records = <<precord>>,
                    !.children = <<div_node_ptr, new_node_ptr>>]
                nodes1 == [p \in DOMAIN t.nodes |->
                    IF p = div_node_ptr THEN
                        [div_node EXCEPT !.records = left_records,
                                         !.children = left_children,
                                         !.parent = pnode_ptr]
                    ELSE IF p \in moved THEN [t.nodes[p] EXCEPT !.parent = new_node_ptr]
                    ELSE t.nodes[p]]
            IN  [t |-> [t EXCEPT !.nodes = nodes1 \o <<new_node, pnode>>,
                                 !.node_num = @ + 1,
                                 !.root = pnode_ptr],
                 next |-> 0]

\* The split loop of Tree::insert, walking up from the mutated leaf.
RECURSIVE SplitLoop(_, _)
SplitLoop(t, div_node_ptr) ==
    LET div_node == t.nodes[div_node_ptr]
    IN  IF div_node.is_leaf THEN
            IF Len(div_node.records) > 1 /\ Node_size(div_node) > t.leaf_size_limit THEN
                LET s == SplitLeaf(t, div_node_ptr)
                IN  IF s.next = 0 THEN s.t ELSE SplitLoop(s.t, s.next)
            ELSE t
        ELSE IF Node_size(div_node) > t.index_size_limit /\ Len(div_node.records) >= 3 THEN
            LET s == SplitIndex(t, div_node_ptr)
            IN  IF s.next = 0 THEN s.t ELSE SplitLoop(s.t, s.next)
        ELSE t

\* A variant of Tree_insert that puts the record at the index index_of
\* returned, whatever the ordering.
Tree_insert_AtIndex(t, key, value) ==
    IF Len(t.nodes[t.root].records) = 0 THEN
        [t EXCEPT !.nodes[t.root].records = <<Record_with_value(key, value)>>]
    ELSE
        LET node_ptr == Descend(t.nodes, t.root, key)
            r == index_of(t.nodes[node_ptr], key)
            rec == Record_with_value(key, value)
            t1 == [t EXCEPT !.nodes[node_ptr].records = VecInsert(@, r[1], rec)]
        IN  SplitLoop(t1, node_ptr)

\* Tree::insert.
Tree_insert(t, key, value) ==
    IF Len(t.nodes[t.root].records) = 0 THEN
        [t EXCEPT !.nodes[t.root].records = <<Record_with_value(key, value)>>]
    ELSE
        LET node_ptr == Descend(t.nodes, t.root, key)
            r == index_of(t.nodes[node_ptr], key)
            pos == IF is_le(r[2]) THEN r[1] ELSE r[1] + 1
            rec == Record_with_value(key, value)
            t1 == [t EXCEPT !.nodes[node_ptr].records = VecInsert(@, pos, rec)]
        IN  SplitLoop(t1, node_ptr)

(***************************************************************************)
(* Byte codec (utils.rs) and Deflate framing.                              *)
(***************************************************************************)
RECURSIVE Pow256(_)
Pow256(i) == IF i = 0 THEN 1 ELSE 256 * Pow256(i - 1)

\* u64_to_u8v: 8 bytes, big-endian; byte i is (v >> (i * 8)) as u8.  The
\* offsets of the model stay below 2^31, so the four high bytes are 0.
u64_to_u8v(v) == [j \in 1..8 |-> IF j <= 4 THEN 0 ELSE (v \div Pow256(8 - j)) % 256]

\* u32_to_u8v: 4 bytes, big-endian.
u32_to_u8v(v) == [j \in 1..4 |-> (v \div Pow256(4 - j)) % 256]

\* The largest integer of the model, standing for every value above it.
Huge == 2147483647

\* u8v_to_u32.
u8v_to_u32(v) ==
    IF v[1] >= 128 THEN Huge
    ELSE v[1] * Pow256(3) + v[2] * Pow256(2) + v[3] * 256 + v[4]

\* u8v_to_u64.
u8v_to_u64(v) ==
    IF v[1] # 0 \/ v[2] # 0 \/ v[3] # 0 \/ v[4] # 0 THEN Huge
    ELSE u8v_to_u32(SubSeq(v, 5, 8))

\* u8v_to_u16: 2 bytes, big-endian.
u8v_to_u16(v) == v[1] * 256 + v[2]

\* u16_to_u8v: 2 bytes, big-endian (utils.rs keeps it only as a comment).
u16_to_u8v(v) == <<(v \div 256) % 256, v % 256>>

\* Scanner::is_end: nothing is left to read at pos (0-based).
Scanner_is_end(buf, pos) == pos >= Len(buf)

\* Scanner::read_u16 at pos (0-based): Some(value), None for a slice that
\* runs past the end of the buffer (a panic).
Scanner_read_u16(buf, pos) ==
    IF pos + 2 > Len(buf) THEN <<>> ELSE <<u8v_to_u16(SubSeq(buf, pos + 1, pos + 2))>>

\* compress: flate2's DeflateEncoder.  Its output is modelled by the
\* stored-block form of the Deflate format (a final block of type 00: the
\* length, its complement, the bytes), which DeflateDecoder inflates back.
compress(buf) ==
    <<1, Len(buf) % 256, Len(buf) \div 256,
      255 - (Len(buf) % 256), 255 - (Len(buf) \div 256)>> \o buf

\* DeflateDecoder::read_to_end: Some(data) for a well-formed stream, None
\* (an Err) otherwise; an empty input reads as an empty output.
inflate(bytes) ==
    IF bytes = <<>> THEN <<bytes>>
    ELSE IF /\ Len(bytes) >= 5
            /\ bytes[1] = 1
            /\ bytes[2] + 256 * bytes[3] = Len(bytes) - 5
            /\ bytes[4] = 255 - bytes[2]
            /\ bytes[5] = 255 - bytes[3]
         THEN <<SubSeq(bytes, 6, Len(bytes))>>
    ELSE <<>>

(***************************************************************************)
(* Serialization (tree.rs).                                                *)
(***************************************************************************)
\* Record::bytes.
Record_bytes(rec) ==
    u32_to_u8v(Len(rec.key)) \o rec.key
    \o (IF rec.value # <<>> THEN u32_to_u8v(Len(rec.value[1])) \o rec.value[1] ELSE <<>>)

RECURSIVE RecordsBytes(_)
RecordsBytes(records) ==
    IF records = <<>> THEN <<>>
    ELSE Record_bytes(Head(records)) \o RecordsBytes(Tail(records))

RECURSIVE ChildrenBytes(_, _)
ChildrenBytes(nodes, children) ==
    IF children = <<>> THEN <<>>
    ELSE u64_to_u8v(nodes[Head(children)].offset)
         \o u32_to_u8v(nodes[Head(children)].zip_size)
         \o ChildrenBytes(nodes, Tail(children))

\* Node::bytes: kind, record count, records, then (offset, zip_size) of
\* every in-memory child.
Node_bytes(nodes, node) ==
    <<IF node.is_leaf THEN 0 ELSE 1>> \o u32_to_u8v(Len(node.records))
    \o RecordsBytes(node.records) \o ChildrenBytes(nodes, node.children)

\* The walk of Tree::write_to from the root to the right-most leaf.
RECURSIVE RightMostLeaf(_, _)
RightMostLeaf(nodes, node_ptr) ==
    IF nodes[node_ptr].is_leaf THEN node_ptr
    ELSE RightMostLeaf(nodes, nodes[node_ptr].children[Len(nodes[node_ptr].children)])

\* The children of an index node that are not written yet (offset == 0),
\* as 1-based positions.
UnsavedChildren(nodes, node) ==
    {i \in 1..Len(node.children) : nodes[node.children[i]].offset = 0}

Max(S) == CHOOSE x \in S : \A y \in S : y <= x

RECURSIVE WriteLoop(_)

\* A variant of WriteBuf that gives every leaf the pointer (0, 0).
WriteBuf_NoNextLeaf(w, tmp_node) ==
    compress(Node_bytes(w.nodes, tmp_node)
             \o (IF tmp_node.is_leaf THEN u64_to_u8v(0) \o u32_to_u8v(0) ELSE <<>>))

\* The bytes write_to emits for tmp_node: Node::bytes, for a leaf followed
\* by the reference of the leaf written before it, compressed.
WriteBuf(w, tmp_node) ==
    compress(Node_bytes(w.nodes, tmp_node)
             \o (IF tmp_node.is_leaf
                 THEN u64_to_u8v(w.leaf_offset) \o u32_to_u8v(w.leaf_size)
                 ELSE <<>>))

\* A variant of WriteNode that records the position after the write as the
\* offset of the node.
WriteNode_OffsetAfterWrite(w, tmp_node, buf) ==
    LET w1 == [w EXCEPT
            !.nodes[w.node_ptr].offset = w.offset + Len(buf),
            !.nodes[w.node_ptr].zip_size = Len(buf),
            !.offset = @ + Len(buf),
            !.leaf_offset = IF tmp_node.is_leaf THEN w.offset ELSE @,
            !.leaf_size = IF tmp_node.is_leaf THEN Len(buf) ELSE @,
            !.out = @ \o buf,
            !.order = Append(@, w.node_ptr)]
    IN  IF tmp_node.parent # 0
        THEN WriteLoop([w1 EXCEPT !.node_ptr = tmp_node.parent])
        ELSE w1

\* The write of buf for tmp_node: its offset and zip_size are recorded, a
\* leaf becomes the last leaf written, and the loop goes on at the parent.
WriteNode(w, tmp_node, buf) ==
    LET w1 == [w EXCEPT
            !.nodes[w.node_ptr].offset = w.offset,
            !.nodes[w.node_ptr].zip_size = Len(buf),
            !.offset = @ + Len(buf),
            !.leaf_offset = IF tmp_node.is_leaf THEN w.offset ELSE @,
            !.leaf_size = IF tmp_node.is_leaf THEN Len(buf) ELSE @,
            !.out = @ \o buf,
            !.order = Append(@, w.node_ptr)]
    IN  IF tmp_node.parent # 0
        THEN WriteLoop([w1 EXCEPT !.node_ptr = tmp_node.parent])
        ELSE w1

\* A variant of WriteLoop that descends into the first unsaved child
\* instead of the last.
WriteLoop_FirstUnsaved(w) ==
    LET tmp_node == w.nodes[w.node_ptr]
        unsaved == UnsavedChildren(w.nodes, tmp_node)
    IN  IF ~tmp_node.is_leaf /\ unsaved # {} THEN
            WriteLoop([w EXCEPT !.node_ptr =
                tmp_node.children[CHOOSE i \in unsaved : \A j \in unsaved : i <= j]])
        ELSE WriteNode(w, tmp_node, WriteBuf(w, tmp_node))

\* The emission loop of Tree::write_to.  w.out are the bytes written to the
\* file so far, w.order the pointers of the nodes in the order written.
WriteLoop(w) ==
    LET tmp_node == w.nodes[w.node_ptr]
        unsaved == UnsavedChildren(w.nodes, tmp_node)
    IN  IF ~tmp_node.is_leaf /\ unsaved # {} THEN
            WriteLoop([w EXCEPT !.node_ptr = tmp_node.children[Max(unsaved)]])
        ELSE WriteNode(w, tmp_node, WriteBuf(w, tmp_node))

\* What write_to leaves behind once the loop has ended in w.
Written(t, w) ==
    [t |-> [t EXCEPT !.nodes = w.nodes], out |-> w.out, order |-> w.order,
     ret |-> <<w.nodes[t.root].offset, w.nodes[t.root].zip_size>>]

\* Tree::write_to with the file positioned at pos: the tree with the
\* offsets it recorded, the bytes appended, the order of emission and the
\* returned (offset, size) of the root.
Tree_write_to(t, pos) ==
    IF Len(t.nodes[t.root].records) = 0 THEN
        [t |-> t, out |-> <<>>, order |-> <<>>, ret |-> <<0, 0>>]
    ELSE
        Written(t, WriteLoop([nodes |-> t.nodes,
                              node_ptr |-> RightMostLeaf(t.nodes, t.root),
                              offset |-> pos, leaf_offset |-> 0, leaf_size |-> 0,
                              out |-> <<>>, order |-> <<>>]))

(***************************************************************************)
(* Beluga (beluga.rs).                                                     *)
(***************************************************************************)
\* Length of the head of a file: spec magic (u16), metadata length (u32),
\* metadata.
HeadLen == 2 + 4 + MetadataLen

\* The end of Beluga::save, e and k being what write_to returned for the
\* entry tree and the token tree: the two roots are appended.
SaveRoots(e, k) ==
    [entry_tree |-> e.t, token_tree |-> k.t, order |-> e.order,
     file |-> [head_len |-> HeadLen,
               data |-> e.out \o k.out
                        \o u64_to_u8v(e.ret[1]) \o u32_to_u8v(e.ret[2])
                        \o u64_to_u8v(k.ret[1]) \o u32_to_u8v(k.ret[2])]]

\* Beluga::save after the entry tree is written: the token tree follows it.
SaveTokens(tok_tree, e) == SaveRoots(e, Tree_write_to(tok_tree, HeadLen + Len(e.out)))

\* Beluga::save: spec magic (u16), metadata length (u32), metadata, the
\* entry tree, the token tree, the two roots.  The file is kept as the
\* length of its head (magic, length, metadata) and the bytes after it.
Beluga_save(entry_tree, tok_tree) ==
    SaveTokens(tok_tree, Tree_write_to(entry_tree, HeadLen))

(***************************************************************************)
(* LruCache (lru.rs).  c.nodes is the arena of LruNode, c.map the HashMap  *)
(* from a key to its node pointer, head and tail the ends of the recency   *)
(* list (0 = None).                                                        *)
(***************************************************************************)
\* SizedValue::size: DictNode and the values of the cache carry a size field.
SizedValue_size(val) == val.size

\* LruCache::new.
LruCache_new(cap) ==
    [cap |-> cap, len |-> 0, map |-> <<>>, nodes |-> <<>>, head |-> 0, tail |-> 0]

\* HashMap lookups on c.map, kept as a sequence of <<key, pointer>> pairs
\* with distinct keys.
MapHas(map, key) == \E i \in 1..Len(map) : map[i][1] = key
MapGet(map, key) == map[CHOOSE i \in 1..Len(map) : map[i][1] = key][2]
MapRemove(map, key) == SelectSeq(map, LAMBDA e : e[1] # key)
MapValues(map) == {map[i][2] : i \in 1..Len(map)}

\* LruCache::shrink: evict from the tail while len > cap.
RECURSIVE LruCache_shrink(_)
LruCache_shrink(c) ==
    IF c.len > c.cap /\ c.tail # 0 THEN
        LET tail_node == c.nodes[c.tail]
        IN  LruCache_shrink([c EXCEPT !.map = MapRemove(@, tail_node.key),
                                      !.tail = tail_node.prev,
                                      !.len = @ - tail_node.size])
    ELSE c

\* LruCache::put, the arm for a key that is in the map.
PutResident(c, key, val) ==
    LET v == MapGet(c.map, key)
        node == c.nodes[v]
        nodes1 == [c.nodes EXCEPT ![v].val = val]
    IN  IF node.next # 0 THEN
            IF node.prev # 0 THEN
                LET nodes2 == [nodes1 EXCEPT ![node.prev].next = node.next]
                    nodes3 == [nodes2 EXCEPT ![node.next].prev = node.prev]
                    nodes4 == [nodes3 EXCEPT ![v].prev = 0, ![v].next = c.head]
                IN  [c EXCEPT !.nodes = nodes4, !.head = v]
            ELSE [c EXCEPT !.nodes = nodes1]
        ELSE
            IF node.prev # 0 THEN
                LET nodes2 == [nodes1 EXCEPT ![node.prev].next = 0]
                    nodes3 == [nodes2 EXCEPT ![v].next = c.head]
                IN  [c EXCEPT !.nodes = nodes3, !.head = v, !.tail = node.prev]
            ELSE [c EXCEPT !.nodes = nodes1]

\* LruCache::put, the arm for a new key.
PutNew(c, key, val) ==
    LET node_ptr == Len(c.nodes) + 1
        node == [key |-> key, val |-> val, size |-> SizedValue_size(val),
                 prev |-> 0, next |-> c.head]
        nodes1 == Append(c.nodes, node)
    IN  IF c.head # 0 THEN
            [c EXCEPT !.nodes = [nodes1 EXCEPT ![c.head].prev = node_ptr],
                      !.head = node_ptr,
                      !.map = Append(@, <<key, node_ptr>>)]
        ELSE
            [c EXCEPT !.nodes = nodes1, !.tail = node_ptr, !.head = node_ptr,
                      !.map = Append(@, <<key, node_ptr>>)]

\* The end of LruCache::put: the value of the head is cloned.
PutReturn(c) == [cache |-> c, ret |-> c.nodes[c.head].val]

\* LruCache::put: the cache after the call and the value returned.
LruCache_put(c, key, val) ==
    PutReturn(LruCache_shrink(IF MapHas(c.map, key) THEN PutResident(c, key, val)
                              ELSE PutNew(c, key, val)))

\* A variant of LruCache_get that answers with the value at the head.
LruCache_get_ReturnsHead(c, key) ==
    IF MapHas(c.map, key) THEN <<c.nodes[c.head].val>> ELSE <<>>

\* LruCache::get.
LruCache_get(c, key) ==
    IF MapHas(c.map, key) THEN <<c.nodes[MapGet(c.map, key)].val>> ELSE <<>>

\* LruCache::resize.
LruCache_resize(c, size) == LruCache_shrink([c EXCEPT !.cap = size])

(***************************************************************************)
(* Node::from_bytes through a Scanner (tree.rs, utils.rs).  A read past    *)
(* the end of the buffer panics: ok = FALSE.                               *)
(***************************************************************************)
\* The records loop of Node::from_bytes, reading n records from pos.
RECURSIVE ReadRecords(_, _, _, _)

ReadFail(pos) == [ok |-> FALSE, records |-> <<>>, pos |-> pos]

\* Vec::push of rec before the records that follow it.
PushRecord(rec, rest) == [rest EXCEPT !.records = <<rec>> \o @]

\* A leaf record whose key ends at kpos and whose value ends at vpos.
ReadValue(data, pos, kpos, vpos, n) ==
    IF vpos > Len(data) THEN ReadFail(pos)
    ELSE PushRecord(Record_with_value(SubSeq(data, pos + 5, kpos),
                                      SubSeq(data, kpos + 5, vpos)),
                    ReadRecords(data, vpos, n - 1, TRUE))

\* A record at pos whose key ends at kpos.
ReadKey(data, pos, kpos, n, is_leaf) ==
    IF kpos > Len(data) THEN ReadFail(pos)
    ELSE IF is_leaf THEN
        IF kpos + 4 > Len(data) THEN ReadFail(pos)
        ELSE ReadValue(data, pos, kpos,
                       kpos + 4 + u8v_to_u32(SubSeq(data, kpos + 1, kpos + 4)), n)
    ELSE PushRecord(Record_new(SubSeq(data, pos + 5, kpos)),
                    ReadRecords(data, kpos, n - 1, FALSE))

\* The record loop of Node::from_bytes: n records from position pos; ok is
\* FALSE when a slice runs past the end of data.
ReadRecords(data, pos, n, is_leaf) ==
    IF n = 0 THEN [ok |-> TRUE, records |-> <<>>, pos |-> pos]
    ELSE IF pos + 4 > Len(data) THEN ReadFail(pos)
    ELSE ReadKey(data, pos, pos + 4 + u8v_to_u32(SubSeq(data, pos + 1, pos + 4)),
                 n, is_leaf)

\* The children loop of Node::from_bytes: cc pairs (u64 offset, u32 size).
RECURSIVE ReadChildren(_, _, _)
ReadChildren(data, pos, cc) ==
    IF cc = 0 THEN [ok |-> TRUE, children |-> <<>>]
    ELSE IF pos + 12 > Len(data) THEN [ok |-> FALSE, children |-> <<>>]
    ELSE
        LET rest == ReadChildren(data, pos + 12, cc - 1)
            child == <<u8v_to_u64(SubSeq(data, pos + 1, pos + 8)),
                       u8v_to_u32(SubSeq(data, pos + 9, pos + 12))>>
        IN  [rest EXCEPT !.children = <<child>> \o @]

\* The node from_bytes returns for records rr and child references rc.
NodeOfParts(is_leaf, rr, rc) ==
    [ok |-> rr.ok /\ rc.ok,
     node |-> [Node_new(is_leaf) EXCEPT !.records = rr.records],
     children |-> rc.children]

\* from_bytes after the records rr are read: a leaf has one reference (its
\* next leaf), an index node rec_num + 1.
NodeAfterRecords(data, is_leaf, rec_num, rr) ==
    NodeOfParts(is_leaf, rr,
                IF rr.ok
                THEN ReadChildren(data, rr.pos, IF is_leaf THEN 1 ELSE rec_num + 1)
                ELSE [ok |-> FALSE, children |-> <<>>])

\* from_bytes after the kind and the record count are read.
NodeAfterCount(data, is_leaf, rec_num) ==
    NodeAfterRecords(data, is_leaf, rec_num, ReadRecords(data, 5, rec_num, is_leaf))

\* Node::from_bytes: the node and the list of its child references.
Node_from_bytes(data) ==
    IF Len(data) < 5 THEN [ok |-> FALSE, node |-> Node_new(TRUE), children |-> <<>>]
    ELSE NodeAfterCount(data, data[1] = 0, u8v_to_u32(SubSeq(data, 2, 5)))

(***************************************************************************)
(* DictFile (dictionary.rs).  A dict file is [file, entry_root,            *)
(* token_root, cache_id].                                                  *)
(***************************************************************************)
\* Length of a file kept as its head length and the bytes after the head.
FileLen(f) == f.head_len + Len(f.data)

\* Byte i (1-based) of a file: the head holds the spec magic 1 (u16), the
\* metadata length (u32) and the metadata text.
FileByte(f, i) ==
    IF i > f.head_len THEN f.data[i - f.head_len]
    ELSE IF i <= 2 THEN u32_to_u8v(1)[i + 2]
    ELSE IF i <= 6 THEN u32_to_u8v(f.head_len - 6)[i - 2]
    ELSE 32

\* seek(SeekFrom::Start(offset)) and read_exact of size bytes: None when
\* the file ends before size bytes are read.
FileRead(f, offset, size) ==
    IF offset + size > FileLen(f) THEN <<>>
    ELSE <<[i \in 1..size |-> FileByte(f, offset + i)]>>

\* The roots in the 24 bytes buf: two (u64 offset, u32 size) pairs.
RootsOf(f, cache_id, buf) ==
    [file |-> f, cache_id |-> cache_id,
     entry_root |-> <<u8v_to_u64(SubSeq(buf, 1, 8)), u8v_to_u32(SubSeq(buf, 9, 12))>>,
     token_root |-> <<u8v_to_u64(SubSeq(buf, 13, 20)), u8v_to_u32(SubSeq(buf, 21, 24))>>]

\* DictFile::new: the roots are read from the last 24 bytes of the file.
DictFile_new(f, cache_id) == RootsOf(f, cache_id, FileRead(f, FileLen(f) - 24, 24)[1])

\* DictNode::new followed by the assignment of children in get_node.
DictNode_new(node, children) == [node |-> node, children |-> children, size |-> 0]

GetNone(c, panic) == [node |-> <<>>, cache |-> c, panic |-> panic]

\* get_node after cache.put returned p.
GetPut(p) == [node |-> <<p.ret>>, cache |-> p.cache, panic |-> FALSE]

\* get_node after Node::from_bytes returned d.
GetDecoded(df, c, offset, d) ==
    IF ~d.ok THEN GetNone(c, TRUE)
    ELSE GetPut(LruCache_put(c, <<df.cache_id, offset>>, DictNode_new(d.node, d.children)))

\* get_node after inflate returned data.
GetInflated(df, c, offset, data) ==
    IF data = <<>> THEN GetNone(c, TRUE)
    ELSE GetDecoded(df, c, offset, Node_from_bytes(data[1]))

\* A variant of GetRead that caches an empty node when the read fails.
GetRead_CachesFailure(df, c, offset, buf) ==
    IF buf = <<>>
    THEN GetNone(LruCache_put(c, <<df.cache_id, offset>>,
                              DictNode_new(Node_new(TRUE), <<>>)).cache, FALSE)
    ELSE GetInflated(df, c, offset, inflate(buf[1]))

\* get_node after the read returned buf.
GetRead(df, c, offset, buf) ==
    IF buf = <<>> THEN GetNone(c, FALSE)
    ELSE GetInflated(df, c, offset, inflate(buf[1]))

\* get_node after the cache answered hit.
GetCached(df, c, offset, size, hit) ==
    IF hit # <<>> THEN [node |-> hit, cache |-> c, panic |-> FALSE]
    ELSE GetRead(df, c, offset, FileRead(df.file, offset, size))

\* DictFile::get_node: the cache is looked up under (cache_id, offset); on a
\* miss the node is read, inflated, decoded and put into the cache.
\* node is None when the read fails; panic is set when inflating or decoding
\* unwraps an error.
get_node(df, c, offset, size) ==
    GetCached(df, c, offset, size, LruCache_get(c, <<df.cache_id, offset>>))

\* A variant of ScanPrefix in which a key that fails the lower-cased test
\* is passed over instead of ending the scan.
RECURSIVE ScanPrefix_PassOver(_, _, _, _, _, _)
ScanPrefix_PassOver(records, i, name, strict, prefix_limit, acc) ==
    IF i > Len(records) THEN acc
    ELSE
        LET k == records[i].key
            acc1 == [acc EXCEPT !.visited = Append(@, k)]
            acc2 == IF /\ starts_with(to_lowercase(k), to_lowercase(name))
                       /\ ((strict /\ starts_with(k, name)) \/ ~strict)
                    THEN [acc1 EXCEPT !.result = Append(@, k)]
                    ELSE acc1
        IN  IF Len(acc2.result) >= prefix_limit
            THEN [acc2 EXCEPT !.done = TRUE]
            ELSE ScanPrefix_PassOver(records, i + 1, name, strict, prefix_limit, acc2)

\* A variant of ScanPrefix in which, with strict set, a key that fails the
\* raw test ends the scan.
RECURSIVE ScanPrefix_StrictEnds(_, _, _, _, _, _)
ScanPrefix_StrictEnds(records, i, name, strict, prefix_limit, acc) ==
    IF i > Len(records) THEN acc
    ELSE
        LET k == records[i].key
            acc1 == [acc EXCEPT !.visited = Append(@, k)]
        IN  IF /\ starts_with(to_lowercase(k), to_lowercase(name))
               /\ (~strict \/ starts_with(k, name))
            THEN
                LET acc2 == [acc1 EXCEPT !.result = Append(@, k)]
                IN  IF Len(acc2.result) >= prefix_limit
                    THEN [acc2 EXCEPT !.done = TRUE]
                    ELSE ScanPrefix_StrictEnds(records, i + 1, name, strict,
                                               prefix_limit, acc2)
            ELSE [acc1 EXCEPT !.done = TRUE]

\* The record loop of DictFile::search over the records of one leaf from
\* position i (1-based).  acc.result are the accepted keys, acc.visited the
\* keys checked ("Checking match"), acc.done is set when search returns.
RECURSIVE ScanPrefix(_, _, _, _, _, _)
ScanPrefix(records, i, name, strict, prefix_limit, acc) ==
    IF i > Len(records) THEN acc
    ELSE
        LET k == records[i].key
            acc1 == [acc EXCEPT !.visited = Append(@, k)]
        IN  IF starts_with(to_lowercase(k), to_lowercase(name)) THEN
                LET acc2 == IF (strict /\ starts_with(k, name)) \/ ~strict
                            THEN [acc1 EXCEPT !.result = Append(@, k)]
                            ELSE acc1
                IN  IF Len(acc2.result) >= prefix_limit
                    THEN [acc2 EXCEPT !.done = TRUE]
                    ELSE ScanPrefix(records, i + 1, name, strict, prefix_limit, acc2)
            ELSE [acc1 EXCEPT !.done = TRUE]

SearchReturn(acc, c, status) ==
    [result |-> acc.result, visited |-> acc.visited, cache |-> c, status |-> status]

\* DictFile::search is a loop over get_node; each operator below is the
\* part of the loop body that follows one of its bindings.
RECURSIVE SearchSiblings(_, _, _, _, _, _, _, _), SearchLoop(_, _, _, _, _, _, _)

\* The sibling loop after a leaf dn has been scanned with outcome a.
SearchAfterScan(df, c, name, strict, prefix_limit, dn, a) ==
    IF a.done THEN SearchReturn(a, c, "ok")
    ELSE SearchSiblings(df, c, name, strict, prefix_limit,
                        dn.children[1][1], dn.children[1][2], a)

\* A variant of SearchSiblingNode that drops the accepted keys when
\* get_node answers None.
SearchSiblingNode_DropsResults(df, g, name, strict, prefix_limit, acc) ==
    IF g.panic THEN SearchReturn(acc, g.cache, "panic")
    ELSE IF g.node = <<>>
    THEN SearchReturn([result |-> <<>>, visited |-> acc.visited], g.cache, "ok")
    ELSE SearchAfterScan(df, g.cache, name, strict, prefix_limit, g.node[1],
                         ScanPrefix(g.node[1].node.records, 1, name, strict,
                                    prefix_limit, acc))

\* The sibling loop once get_node has answered g for the next leaf.
SearchSiblingNode(df, g, name, strict, prefix_limit, acc) ==
    IF g.panic THEN SearchReturn(acc, g.cache, "panic")
    ELSE IF g.node = <<>> THEN SearchReturn(acc, g.cache, "ok")
    ELSE SearchAfterScan(df, g.cache, name, strict, prefix_limit, g.node[1],
                         ScanPrefix(g.node[1].node.records, 1, name, strict,
                                    prefix_limit, acc))

\* The loop of DictFile::search over the next-leaf chain.
SearchSiblings(df, c, name, strict, prefix_limit, next_offset, next_size, acc) ==
    IF next_offset = 0 THEN SearchReturn(acc, c, "ok")
    ELSE SearchSiblingNode(df, get_node(df, c, next_offset, next_size),
                           name, strict, prefix_limit, acc)

\* The body of the descent loop for node dn with r = dn.node.index_of(key).
SearchNode(df, c, name, strict, prefix_limit, dn, r) ==
    IF dn.node.is_leaf THEN
        SearchAfterScan(df, c, name, strict, prefix_limit, dn,
                        ScanPrefix(dn.node.records,
                                   (IF is_le(r[2]) THEN r[1] ELSE r[1] + 1) + 1,
                                   name, strict, prefix_limit,
                                   [result |-> <<>>, visited |-> <<>>, done |-> FALSE]))
    ELSE
        SearchLoop(df, c, name, strict, prefix_limit,
                   dn.children[(IF is_le(r[2]) THEN r[1] ELSE r[1] + 1) + 1][1],
                   dn.children[(IF is_le(r[2]) THEN r[1] ELSE r[1] + 1) + 1][2])

\* The descent loop once get_node has answered g; index_of on a node
\* without records indexes records[-1] and panics.
SearchGot(df, g, name, strict, prefix_limit) ==
    IF g.panic
    THEN SearchReturn([result |-> <<>>, visited |-> <<>>], g.cache, "panic")
    ELSE IF g.node = <<>>
    THEN SearchReturn([result |-> <<>>, visited |-> <<>>], g.cache, "ok")
    ELSE IF g.node[1].node.records = <<>>
    THEN SearchReturn([result |-> <<>>, visited |-> <<>>], g.cache, "panic")
    ELSE SearchNode(df, g.cache, name, strict, prefix_limit, g.node[1],
                    index_of(g.node[1].node, name))

\* The descent loop of DictFile::search.
SearchLoop(df, c, name, strict, prefix_limit, offset, size) ==
    SearchGot(df, get_node(df, c, offset, size), name, strict, prefix_limit)

\* DictFile::search.
DictFile_search(df, c, name, strict, prefix_limit) ==
    SearchLoop(df, c, name, strict, prefix_limit, df.entry_root[1], df.entry_root[2])

\* The first record of records[i..] whose key equals name, as an Option of
\* its value bytes: the loop of search_entry over the leaf the descent ends in.
RECURSIVE FindRaw(_, _, _)
FindRaw(records, i, name) ==
    IF i > Len(records) THEN <<>>
    ELSE IF records[i].key = name THEN <<records[i].value[1]>>
    ELSE FindRaw(records, i + 1, name)

\* The record loop of search_entry over a following leaf: found, the value;
\* done is set when the loop returns (a match, or a key whose lower-cased
\* form differs from name).
RECURSIVE ScanExact(_, _, _)
ScanExact(records, i, name) ==
    IF i > Len(records) THEN [done |-> FALSE, ret |-> <<>>]
    ELSE IF records[i].key = name THEN [done |-> TRUE, ret |-> <<records[i].value[1]>>]
    ELSE IF to_lowercase(records[i].key) # name THEN [done |-> TRUE, ret |-> <<>>]
    ELSE ScanExact(records, i + 1, name)

EntryReturn(ret, c, status) == [ret |-> ret, cache |-> c, status |-> status]

RECURSIVE EntrySiblings(_, _, _, _, _), EntryLoop(_, _, _, _, _)

\* The sibling loop after the records of leaf dn gave outcome a.
EntryAfterScan(df, c, name, dn, a) ==
    IF a.done THEN EntryReturn(a.ret, c, "ok")
    ELSE EntrySiblings(df, c, name, dn.children[1][1], dn.children[1][2])

\* The sibling loop once get_node has answered g for the next leaf.
EntrySiblingNode(df, g, name) ==
    IF g.panic THEN EntryReturn(<<>>, g.cache, "panic")
    ELSE IF g.node = <<>> THEN EntryReturn(<<>>, g.cache, "ok")
    ELSE EntryAfterScan(df, g.cache, name, g.node[1],
                        ScanExact(g.node[1].node.records, 1, name))

\* The loop of DictFile::search_entry over the next-leaf chain.
EntrySiblings(df, c, name, next_offset, next_size) ==
    IF next_offset = 0 THEN EntryReturn(<<>>, c, "ok")
    ELSE EntrySiblingNode(df, get_node(df, c, next_offset, next_size), name)

\* The leaf arm after the for loop from index found (or not) the key.
EntryAfterLeaf(df, c, name, dn, found) ==
    IF found # <<>> THEN EntryReturn(found, c, "ok")
    ELSE EntrySiblings(df, c, name, dn.children[1][1], dn.children[1][2])

\* The body of the descent loop for node dn with r = node.index_of(key).
EntryNode(df, c, name, dn, r) ==
    IF dn.node.is_leaf THEN
        IF is_ge(r[2])
        THEN EntryAfterLeaf(df, c, name, dn, FindRaw(dn.node.records, r[1] + 1, name))
        ELSE EntryReturn(<<>>, c, "ok")
    ELSE
        EntryLoop(df, c, name,
                  dn.children[(IF is_le(r[2]) THEN r[1] ELSE r[1] + 1) + 1][1],
                  dn.children[(IF is_le(r[2]) THEN r[1] ELSE r[1] + 1) + 1][2])

\* The descent loop once get_node has answered g.
EntryGot(df, g, name) ==
    IF g.panic THEN EntryReturn(<<>>, g.cache, "panic")
    ELSE IF g.node = <<>> THEN EntryReturn(<<>>, g.cache, "ok")
    ELSE IF g.node[1].node.records = <<>> THEN EntryReturn(<<>>, g.cache, "panic")
    ELSE EntryNode(df, g.cache, name, g.node[1], index_of(g.node[1].node, name))

\* The descent loop of DictFile::search_entry.
EntryLoop(df, c, name, offset, size) ==
    EntryGot(df, get_node(df, c, offset, size), name)

\* DictFile::search_entry.
DictFile_search_entry(df, c, root, name) == EntryLoop(df, c, name, root[1], root[2])

(***************************************************************************)
(* Dictionary (dictionary.rs).                                             *)
(***************************************************************************)
\* REDIRECT = "@@@LINK=".
REDIRECT == <<64, 64, 64, 76, 73, 78, 75, 61>>

max_redirects == 3

IsSpace(b) == b \in {9, 10, 11, 12, 13, 32}

RECURSIVE trim_start(_)
trim_start(s) == IF s # <<>> /\ IsSpace(s[1]) THEN trim_start(Tail(s)) ELSE s

RECURSIVE trim_end(_)
trim_end(s) ==
    IF s # <<>> /\ IsSpace(s[Len(s)]) THEN trim_end(SubSeq(s, 1, Len(s) - 1)) ELSE s

\* str::trim.
trim(s) == trim_end(trim_start(s))

\* Dictionary::new for an entry file without resource files.
Dictionary_new(f, cache_id) == [entry |-> DictFile_new(f, cache_id), resources |-> <<>>]

RECURSIVE RedirectLoop(_, _, _, _)

\* One iteration of the loop of Dictionary::search_entry, r being what
\* DictFile::search_entry returned for keyword.
RedirectStep(dict, r, keyword, n) ==
    IF r.status = "panic" THEN r
    ELSE IF r.ret # <<>> THEN
        IF starts_with(trim(r.ret[1]), REDIRECT)
        THEN RedirectLoop(dict, r.cache,
                          SubSeq(trim(r.ret[1]), Len(REDIRECT) + 1, Len(trim(r.ret[1]))),
                          n - 1)
        ELSE EntryReturn(<<r.ret[1]>>, r.cache, "ok")
    ELSE RedirectLoop(dict, r.cache, keyword, n - 1)

\* The loop of Dictionary::search_entry with n iterations left.
RedirectLoop(dict, c, keyword, n) ==
    IF n = 0 THEN EntryReturn(<<>>, c, "ok")
    ELSE RedirectStep(dict,
                      DictFile_search_entry(dict.entry, c, dict.entry.entry_root, keyword),
                      keyword, n)

\* Dictionary::search_entry.
Dictionary_search_entry(dict, c, name) == RedirectLoop(dict, c, name, max_redirects)

\* The loop of Beluga::input_token: every item as its length (as u16) and
\* its bytes.
RECURSIVE input_token_data(_)
input_token_data(value) ==
    IF value = <<>> THEN <<>>
    ELSE u16_to_u8v(Len(Head(value)) % 65536) \o Head(value)
         \o input_token_data(Tail(value))

\* Beluga::parse_token_entries from position pos (0-based) of data; ok is
\* FALSE when a read runs past the end of data (a panic).
RECURSIVE parse_token_entries(_, _)
parse_token_entries(data, pos) ==
    IF Scanner_is_end(data, pos) THEN [ok |-> TRUE, entries |-> <<>>]
    ELSE IF Scanner_read_u16(data, pos) = <<>>
    THEN [ok |-> FALSE, entries |-> <<>>]
    ELSE IF pos + 2 + Scanner_read_u16(data, pos)[1] > Len(data)
    THEN [ok |-> FALSE, entries |-> <<>>]
    ELSE [parse_token_entries(data, pos + 2 + Scanner_read_u16(data, pos)[1])
          EXCEPT !.entries =
              <<SubSeq(data, pos + 3, pos + 2 + Scanner_read_u16(data, pos)[1])>> \o @]

\* A variant of AppendTokens that appends an entry although the list holds
\* it already.
RECURSIVE AppendTokens_KeepsDuplicates(_, _, _, _)
AppendTokens_KeepsDuplicates(result, entries, token_count, phrase_limit) ==
    IF entries = <<>> THEN result
    ELSE IF token_count >= phrase_limit THEN result
    ELSE AppendTokens_KeepsDuplicates(Append(result, Head(entries)), Tail(entries),
                                      token_count + 1, phrase_limit)

\* The loop of Dictionary::search over the parsed token entries.
RECURSIVE AppendTokens(_, _, _, _)
AppendTokens(result, entries, token_count, phrase_limit) ==
    IF entries = <<>> THEN result
    ELSE IF \E i \in 1..Len(result) : result[i] = Head(entries)
    THEN AppendTokens(result, Tail(entries), token_count, phrase_limit)
    ELSE IF token_count >= phrase_limit THEN result
    ELSE AppendTokens(Append(result, Head(entries)), Tail(entries),
                      token_count + 1, phrase_limit)

\* What Dictionary::search returns: result, with the prefix results it
\* started from, the value found in the token tree (found) and whether the
\* token tree was looked into (token_read).
DictSearchReturn(result, r, found, token_read, c, status) ==
    [result |-> result, prefix |-> r.result, found |-> found,
     token_read |-> token_read, cache |-> c, status |-> status]

\* Dictionary::search after search_entry on the token tree returned e.
DictSearchTokens(r, phrase_limit, e) ==
    IF e.status = "panic" THEN DictSearchReturn(r.result, r, <<>>, TRUE, e.cache, "panic")
    ELSE IF e.ret = <<>> THEN DictSearchReturn(r.result, r, <<>>, TRUE, e.cache, "ok")
    ELSE IF ~parse_token_entries(e.ret[1], 0).ok
    THEN DictSearchReturn(r.result, r, e.ret, TRUE, e.cache, "panic")
    ELSE DictSearchReturn(AppendTokens(r.result, parse_token_entries(e.ret[1], 0).entries,
                                       0, phrase_limit),
                          r, e.ret, TRUE, e.cache, "ok")

\* Dictionary::search after DictFile::search returned r.
DictSearchPrefix(dict, name, phrase_limit, r) ==
    IF r.status = "panic" THEN DictSearchReturn(r.result, r, <<>>, FALSE, r.cache, "panic")
    ELSE IF phrase_limit > 0 /\ dict.entry.token_root[2] # 0 THEN
        DictSearchTokens(r, phrase_limit,
                         DictFile_search_entry(dict.entry, r.cache,
                                               dict.entry.token_root, name))
    ELSE DictSearchReturn(r.result, r, <<>>, FALSE, r.cache, "ok")

\* Dictionary::search.
Dictionary_search(dict, c, name, strict, prefix_limit, phrase_limit) ==
    DictSearchPrefix(dict, name, phrase_limit,
                     DictFile_search(dict.entry, c, name, strict, prefix_limit))

(***************************************************************************)
(* Tree::from_file, parse_node and traverse (tree.rs).                     *)
(***************************************************************************)
ParseFail(st, status) ==
    [status |-> status, nodes |-> st.nodes, leaves |-> st.leaves, ptr |-> 0, num |-> 0]

\* parse_node, with the arena and the leaves list in st; status is "ok",
\* "err" (a read fails) or "panic" (inflate or decode is unwrapped on an
\* error, or print indexes the first record of a node without records).
RECURSIVE parse_node(_, _, _, _), ParseChildren(_, _, _, _, _)

\* A variant of ParseDecoded that puts a parsed leaf at the front of the
\* leaves list instead of the back.
ParseDecoded_LeafInFront(f, offset, size, st, d) ==
    IF ~d.ok \/ d.node.records = <<>> THEN ParseFail(st, "panic")
    ELSE
        LET node == [d.node EXCEPT !.offset = offset, !.zip_size = size]
            node_ptr == Len(st.nodes) + 1
        IN  IF node.is_leaf THEN
                [status |-> "ok", nodes |-> Append(st.nodes, node),
                 leaves |-> <<node_ptr>> \o st.leaves,
                 ptr |-> node_ptr, num |-> 1]
            ELSE ParseChildren(f, d.children,
                               [nodes |-> Append(st.nodes, node), leaves |-> st.leaves],
                               node_ptr, 1)

\* parse_node after Node::from_bytes returned d: the node is allocated; a
\* leaf is pushed onto the leaves list, the children of an index node are
\* parsed.
ParseDecoded(f, offset, size, st, d) ==
    IF ~d.ok \/ d.node.records = <<>> THEN ParseFail(st, "panic")
    ELSE
        LET node == [d.node EXCEPT !.offset = offset, !.zip_size = size]
            node_ptr == Len(st.nodes) + 1
        IN  IF node.is_leaf THEN
                [status |-> "ok", nodes |-> Append(st.nodes, node),
                 leaves |-> Append(st.leaves, node_ptr),
                 ptr |-> node_ptr, num |-> 1]
            ELSE ParseChildren(f, d.children,
                               [nodes |-> Append(st.nodes, node), leaves |-> st.leaves],
                               node_ptr, 1)

\* parse_node after inflate returned data.
ParseInflated(f, offset, size, st, data) ==
    IF data = <<>> THEN ParseFail(st, "panic")
    ELSE ParseDecoded(f, offset, size, st, Node_from_bytes(data[1]))

\* parse_node after the read returned buf.
ParseRead(f, offset, size, st, buf) ==
    IF buf = <<>> THEN ParseFail(st, "err")
    ELSE ParseInflated(f, offset, size, st, inflate(buf[1]))

\* parse_node.
parse_node(f, offset, size, st) ==
    IF size = 0 THEN
        [status |-> "ok", nodes |-> Append(st.nodes, Node_new(TRUE)),
         leaves |-> st.leaves, ptr |-> Len(st.nodes) + 1, num |-> 1]
    ELSE ParseRead(f, offset, size, st, FileRead(f, offset, size))

\* The loop of parse_node over the child references after the first of
\* them parsed to c: it becomes a child of node_ptr.
ParseChild(f, children, node_ptr, node_num, c) ==
    IF c.status # "ok" THEN c
    ELSE ParseChildren(f, Tail(children),
            [nodes |-> [c.nodes EXCEPT ![node_ptr].children = Append(@, c.ptr),
                                       ![c.ptr].parent = node_ptr],
             leaves |-> c.leaves],
            node_ptr, node_num + c.num)

\* The loop of parse_node over the child references of an index node.
ParseChildren(f, children, st, node_ptr, node_num) ==
    IF children = <<>> \/ Head(children)[2] = 0 THEN
        [status |-> "ok", nodes |-> st.nodes, leaves |-> st.leaves,
         ptr |-> node_ptr, num |-> node_num]
    ELSE ParseChild(f, children, node_ptr, node_num,
                    parse_node(f, Head(children)[1], Head(children)[2], st))

\* The Tree that Tree::from_file builds from what parse_node returned.
TreeOfParse(p, index_size_limit, leaf_size_limit) ==
    [status |-> p.status,
     t |-> [nodes |-> p.nodes, root |-> p.ptr, leaves |-> p.leaves,
            node_num |-> p.num, index_size_limit |-> index_size_limit,
            leaf_size_limit |-> leaf_size_limit]]

\* Tree::from_file.
Tree_from_file(f, root_offset, root_size, index_size_limit, leaf_size_limit) ==
    TreeOfParse(parse_node(f, root_offset, root_size, [nodes |-> <<>>, leaves |-> <<>>]),
                index_size_limit, leaf_size_limit)

RECURSIVE TraverseLeaves(_, _)
TraverseLeaves(nodes, leaves) ==
    IF leaves = <<>> THEN <<>>
    ELSE [i \in 1..Len(nodes[Head(leaves)].records) |->
            <<nodes[Head(leaves)].records[i].key, nodes[Head(leaves)].records[i].value[1]>>]
         \o TraverseLeaves(nodes, Tail(leaves))

\* Tree::traverse: the (key, value) pairs handed to the callback, in order.
Tree_traverse(t) == TraverseLeaves(t.nodes, t.leaves)

LEAF_NODE_SIZE == 65536
INDEX_NODE_SIZE == 65536

\* The Beluga that from_file builds from its two parsed trees.
BelugaOfTrees(e, k) ==
    [status |-> IF e.status = "ok" /\ k.status = "ok" THEN "ok" ELSE "panic",
     entry_tree |-> e.t, token_tree |-> k.t]

\* Beluga::from_file: the entry tree and the token tree parsed from the
\* roots at the end of the file; a failure of either aborts (expect).
Beluga_from_file(f) ==
    BelugaOfTrees(Tree_from_file(f, DictFile_new(f, 0).entry_root[1],
                                 DictFile_new(f, 0).entry_root[2],
                                 INDEX_NODE_SIZE, LEAF_NODE_SIZE),
                  Tree_from_file(f, DictFile_new(f, 0).token_root[1],
                                 DictFile_new(f, 0).token_root[2],
                                 INDEX_NODE_SIZE, LEAF_NODE_SIZE))

(***************************************************************************)
(* The state machine.                                                      *)
(*                                                                         *)
(* tree, token_tree  the two trees of the Beluga being built               *)
(* entry_num         metadata.entry_num                                    *)
(* inserted          the bag of (name, value) pairs given to input_entry   *)
(* phase             "build" until save, "saved" once the file is          *)
(*                   written, "queried" after the query run on it          *)
(* file              the file written by save                              *)
(* cache             the node cache of the bookshelf the file is opened in *)
(* res               the last query and what it returned                   *)
(***************************************************************************)
\* The entries given to input_entry: "a", "ab", "Ab", "AB", "b", each with
\* a one-byte value of its own.
EntryPairs ==
    { <<<<97>>, <<49>>>>, <<<<97, 98>>, <<50>>>>, <<<<65, 98>>, <<51>>>>,
      <<<<65, 66>>, <<52>>>>, <<<<98>>, <<53>>>> }

\* The names queried: "a", "A", "ab", "Ab", "AB", "aB", "b".
QueryNames ==
    { <<97>>, <<65>>, <<97, 98>>, <<65, 98>>, <<65, 66>>, <<97, 66>>, <<98>> }

\* The prefix limits queried.
PrefixLimits == {0, 1, 2, 5}

\* Bookshelf::new(cap): the capacity of the cache the queries run with.
QueryCacheCaps == {4096}

NoFile == [head_len |-> 0, data |-> <<>>]
NoRes == [op |-> "none"]

Init ==
    /\ \E lim \in SizeLimits :
          /\ tree = Tree_new(lim[1], lim[2])
          /\ token_tree = Tree_new(lim[1], lim[2])
    /\ entry_num = 0
    /\ inserted = EmptyBag
    /\ phase = "build"
    /\ file = NoFile
    /\ \E cap \in QueryCacheCaps : cache = LruCache_new(cap)
    /\ res = NoRes

\* Beluga::input_entry(name, value).
InputEntry(pairs) ==
    /\ phase = "build"
    /\ BagCardinality(inserted) < MaxInserts
    /\ \E p \in pairs :
          /\ tree' = Tree_insert(tree, p[1], p[2])
          /\ inserted' = inserted (+) SetToBag({p})
    /\ entry_num' = entry_num + 1
    /\ UNCHANGED <<token_tree, phase, file, cache, res>>

\* Beluga::save(dest) to a destination that does not exist.
Save ==
    /\ phase = "build"
    /\ LET s == Beluga_save(tree, token_tree)
       IN  /\ tree' = s.entry_tree
           /\ token_tree' = s.token_tree
           /\ file' = s.file
           /\ res' = [op |-> "save", order |-> s.order]
    /\ phase' = "saved"
    /\ UNCHANGED <<entry_num, inserted, cache>>

\* The saved file is opened as a dictionary and DictFile::search is run on
\* its entry file.
Search ==
    /\ phase = "saved"
    /\ \E name \in QueryNames, strict \in BOOLEAN, prefix_limit \in PrefixLimits :
          LET r == DictFile_search(Dictionary_new(file, 0).entry, cache,
                                   name, strict, prefix_limit)
          IN  /\ res' = [op |-> "search", name |-> name, strict |-> strict,
                         prefix_limit |-> prefix_limit, result |-> r.result,
                         visited |-> r.visited, status |-> r.status]
              /\ cache' = r.cache
    /\ phase' = "queried"
    /\ UNCHANGED <<tree, token_tree, entry_num, inserted, file>>

\* DictFile::search_entry(entry_root, name) on the saved file.
SearchEntry ==
    /\ phase = "saved"
    /\ \E name \in QueryNames :
          LET df == Dictionary_new(file, 0).entry
              r == DictFile_search_entry(df, cache, df.entry_root, name)
          IN  /\ res' = [op |-> "search_entry", name |-> name, ret |-> r.ret,
                         status |-> r.status]
              /\ cache' = r.cache
    /\ phase' = "queried"
    /\ UNCHANGED <<tree, token_tree, entry_num, inserted, file>>

\* Beluga::from_file on the saved file, then traverse_entry.
FromFile ==
    /\ phase = "saved"
    /\ LET b == Beluga_from_file(file)
       IN  res' = [op |-> "from_file", status |-> b.status, tree |-> b.entry_tree,
                   tokens |-> b.token_tree,
                   traversed |-> IF b.status = "ok" THEN Tree_traverse(b.entry_tree)
                                 ELSE <<>>]
    /\ phase' = "queried"
    /\ UNCHANGED <<tree, token_tree, entry_num, inserted, file, cache>>

\* Beluga::save(dest2) of the Beluga that from_file returned: order and file
\* are the nodes of its entry tree in the order written and the second file.
Resave ==
    /\ phase = "queried"
    /\ res.op = "from_file"
    /\ res.status = "ok"
    /\ LET s == Beluga_save(res.tree, res.tokens)
       IN  res' = [op |-> "resave", tree |-> res.tree, order |-> s.order,
                   file |-> s.file]
    /\ phase' = "resaved"
    /\ UNCHANGED <<tree, token_tree, entry_num, inserted, file, cache>>

Next ==
    \/ InputEntry(EntryPairs)
    \/ Save
    \/ Search
    \/ SearchEntry
    \/ FromFile
    \/ Resave

Spec == Init /\ [][Next]_vars

(***************************************************************************)
(* Definitions used to state the claims.                                   *)
(***************************************************************************)
Saved == phase \in {"saved", "queried"}

\* The keys given to input_entry.
InsertedKeys == {p[1] : p \in BagToSet(inserted)}

\* The values given to input_entry together with key k.
ValuesOf(k) == {p[2] : p \in {q \in BagToSet(inserted) : q[1] = k}}

\* The lower-cased prefix test of a key against a queried name.
LowerMatch(k, name) == starts_with(to_lowercase(k), to_lowercase(name))

\* The first n elements of a sequence.
Take(s, n) == SubSeq(s, 1, IF n < Len(s) THEN n ELSE Len(s))

IsPrefixOf(s, t) == Len(s) <= Len(t) /\ SubSeq(t, 1, Len(s)) = s

Count(s, x) == Cardinality({i \in 1..Len(s) : s[i] = x})

\* A sequence of keys is in non-decreasing order of smoothed key.
SmoothSorted(keys) ==
    \A i \in 1..(Len(keys) - 1) : is_le(cmp(smooth(keys[i]), smooth(keys[i + 1])))

\* The leaves below node_ptr in left-to-right tree order.
RECURSIVE LeavesInOrder(_, _)
LeavesInOrder(nodes, node_ptr) ==
    IF nodes[node_ptr].is_leaf THEN <<node_ptr>>
    ELSE LET F[i \in 0..Len(nodes[node_ptr].children)] ==
                 IF i = 0 THEN <<>>
                 ELSE F[i - 1] \o LeavesInOrder(nodes, nodes[node_ptr].children[i])
         IN  F[Len(nodes[node_ptr].children)]

\* The keys of the given leaves, concatenated.
RECURSIVE KeysOfLeaves(_, _)
KeysOfLeaves(nodes, leaves) ==
    IF leaves = <<>> THEN <<>>
    ELSE [i \in 1..Len(nodes[Head(leaves)].records) |-> nodes[Head(leaves)].records[i].key]
         \o KeysOfLeaves(nodes, Tail(leaves))

\* The keys of the entry tree in leaf order, left to right.
KeysInLeafOrder == KeysOfLeaves(tree.nodes, LeavesInOrder(tree.nodes, tree.root))

\* The entry file of the saved file opened as a dictionary, and a cache as
\* the queries start with.
EntryFile == Dictionary_new(file, 0).entry
FreshCache == LruCache_new(cache.cap)

\* A node read from the file at a (offset, size) reference and decoded.
ReadRef(f, ref) ==
    LET buf == FileRead(f, ref[1], ref[2])
        data == IF buf = <<>> THEN <<>> ELSE inflate(buf[1])
    IN  IF data = <<>> THEN [ok |-> FALSE, node |-> Node_new(TRUE), children |-> <<>>]
        ELSE Node_from_bytes(data[1])

\* The reference of the left-most leaf below ref: the first child, repeatedly.
RECURSIVE LeftMostLeafRef(_, _, _)
LeftMostLeafRef(f, ref, fuel) ==
    LET d == ReadRef(f, ref)
    IN  IF fuel = 0 \/ ~d.ok THEN <<0, 0>>
        ELSE IF d.node.is_leaf THEN ref
        ELSE LeftMostLeafRef(f, d.children[1], fuel - 1)

\* The leaves met by following next-leaf pointers from ref until (0, 0):
\* their references and keys; ok is FALSE when a reference does not decode
\* to a leaf or the walk does not end within fuel steps.
RECURSIVE LeafChain(_, _, _)
LeafChain(f, ref, fuel) ==
    IF ref = <<0, 0>> THEN [ok |-> TRUE, refs |-> <<>>, keys |-> <<>>]
    ELSE IF fuel = 0 THEN [ok |-> FALSE, refs |-> <<>>, keys |-> <<>>]
    ELSE
        LET d == ReadRef(f, ref)
        IN  IF ~d.ok \/ ~d.node.is_leaf THEN [ok |-> FALSE, refs |-> <<>>, keys |-> <<>>]
            ELSE
            LET rest == LeafChain(f, d.children[1], fuel - 1)
            IN  [ok |-> rest.ok, refs |-> <<ref>> \o rest.refs,
                 keys |-> [i \in 1..Len(d.node.records) |-> d.node.records[i].key]
                          \o rest.keys]

NonEmptyTree == Len(tree.nodes[tree.root].records) > 0

(***************************************************************************)
(* The claims.                                                             *)
(***************************************************************************)
\* C1: after insert, save and reopen, search_entry(entry_root, k) returns
\* the value stored under the raw-equal key k, for every inserted k, also
\* when other inserted keys have the same lower-cased form.
C1_RawEqualKeyReturned ==
    (res.op = "search_entry" /\ res.name \in InsertedKeys) =>
        /\ res.status = "ok"
        /\ res.ret # <<>>
        /\ res.ret[1] \in ValuesOf(res.name)

\* C2: for a name that was not inserted but whose lower-cased form equals
\* that of an inserted key, search_entry returns the value of an inserted
\* key of that lower-cased class.
C2_CaseVariantReturned ==
    (/\ res.op = "search_entry"
     /\ res.name \notin InsertedKeys
     /\ \E k \in InsertedKeys : to_lowercase(k) = to_lowercase(res.name)) =>
        /\ res.ret # <<>>
        /\ \E k \in InsertedKeys :
              /\ to_lowercase(k) = to_lowercase(res.name)
              /\ res.ret[1] \in ValuesOf(k)

\* C3: search(p, strict = false, L) returns exactly the first L keys, in
\* leaf-chain order, among the inserted keys whose lower-cased form starts
\* with lower-cased p; no such key is skipped.  Stated for L >= 1 (the
\* case L = 0 is the subject of C4).
C3_PrefixFirstL ==
    (/\ res.op = "search"
     /\ ~res.strict
     /\ res.prefix_limit >= 1
     /\ res.status = "ok") =>
        res.result = Take(SelectSeq(KeysInLeafOrder, LAMBDA k : LowerMatch(k, res.name)),
                          res.prefix_limit)

\* C4: search never returns more than prefix_limit keys, for every
\* prefix_limit >= 0.
C4_AtMostLimit ==
    (res.op = "search" /\ res.status = "ok") => Len(res.result) <= res.prefix_limit

\* C5: every key returned by search has a lower-cased form that starts
\* with the lower-cased name, and the scan ends at the first visited key
\* that fails this test.
C5_LowerPrefixAndStop ==
    res.op = "search" =>
        /\ \A i \in 1..Len(res.result) : LowerMatch(res.result[i], res.name)
        /\ \A i \in 1..Len(res.visited) :
              ~LowerMatch(res.visited[i], res.name) => i = Len(res.visited)

\* C5 witness: a search that ended at a failing key, below its limit, after
\* accepting keys.
C5_Witness ==
    /\ res.op = "search"
    /\ Len(res.result) >= 2
    /\ Len(res.result) < res.prefix_limit
    /\ ~LowerMatch(res.visited[Len(res.visited)], res.name)

\* The keys a non-strict, unlimited search for the queried name accepts: the
\* run of keys that pass the lower-cased test from where the scan starts.
RunOfQuery == DictFile_search(EntryFile, FreshCache, res.name, FALSE, Huge).result

\* C6: with strict = true every returned key starts with the name in raw
\* form, and a key that passes the lower-cased test but fails the raw test
\* is skipped without ending the scan: the result is the raw-matching keys
\* of the run, up to the limit.
C6_StrictSkips ==
    (res.op = "search" /\ res.strict /\ res.status = "ok") =>
        LET wanted == Take(SelectSeq(RunOfQuery, LAMBDA k : starts_with(k, res.name)),
                           res.prefix_limit)
        IN  /\ \A i \in 1..Len(res.result) : starts_with(res.result[i], res.name)
            /\ IsPrefixOf(wanted, res.result)
            /\ res.prefix_limit >= 1 => res.result = wanted

\* C6 witness: a strict search that returned a key met after a skipped one.
C6_Witness ==
    /\ res.op = "search"
    /\ res.strict
    /\ \E i, j \in 1..Len(res.visited) :
          /\ i < j
          /\ LowerMatch(res.visited[i], res.name)
          /\ ~starts_with(res.visited[i], res.name)
          /\ \E n \in 1..Len(res.result) : res.result[n] = res.visited[j]

\* C7: for any multiset of pairs inserted, saved and reparsed by
\* from_file, traverse yields exactly the same multiset of pairs, in
\* non-decreasing order of smoothed key.
C7_RoundTrip ==
    res.op = "from_file" =>
        /\ res.status = "ok"
        /\ \A i \in 1..Len(res.traversed) : res.traversed[i] \in BagToSet(inserted)
        /\ \A p \in BagToSet(inserted) : Count(res.traversed, p) = CopiesIn(p, inserted)
        /\ SmoothSorted([i \in 1..Len(res.traversed) |-> res.traversed[i][1]])

\* C7 witness: a reparsed tree of several leaves holding a pair twice.
C7_Witness ==
    /\ res.op = "from_file"
    /\ Len(res.tree.leaves) >= 3
    /\ \E p \in BagToSet(inserted) : CopiesIn(p, inserted) >= 2

\* C8: in a written file, following the next-leaf pointers from the
\* left-most leaf visits every leaf exactly once, in ascending smoothed-key
\* order, and ends at a leaf whose pointer is (0, 0).
C8_LeafChain ==
    (Saved /\ NonEmptyTree) =>
        LET leaves == LeavesInOrder(tree.nodes, tree.root)
            fuel == Len(tree.nodes) + 1
            chain == LeafChain(file, LeftMostLeafRef(file, EntryFile.entry_root, fuel), fuel)
        IN  /\ chain.ok
            /\ chain.refs = [i \in 1..Len(leaves) |->
                                <<tree.nodes[leaves[i]].offset, tree.nodes[leaves[i]].zip_size>>]
            /\ \A i, j \in 1..Len(chain.refs) : chain.refs[i] = chain.refs[j] => i = j
            /\ {leaves[i] : i \in 1..Len(leaves)} = {tree.leaves[i] : i \in 1..Len(tree.leaves)}
            /\ SmoothSorted(chain.keys)

\* C8 witness: a saved tree of three levels.
C8_Witness ==
    /\ Saved
    /\ Len(tree.leaves) >= 3
    /\ \E n \in 1..Len(tree.nodes) : ~tree.nodes[n].is_leaf /\ tree.nodes[n].parent # 0

(***************************************************************************)
(* Redirects: entries whose values are "@@@LINK=<key>" are inserted into a *)
(* Beluga as Beluga::new builds it, saved, and looked up through           *)
(* Dictionary::search_entry.                                               *)
(***************************************************************************)
\* The entries: "a" -> "@@@LINK=b", "b" -> "@@@LINK=c", "c" -> "@@@LINK=D",
\* "D" -> "v", "d" -> "w", "e" -> "@@@LINK=e".
LinkPairs ==
    { <<<<97>>, REDIRECT \o <<98>>>>, <<<<98>>, REDIRECT \o <<99>>>>,
      <<<<99>>, REDIRECT \o <<68>>>>, <<<<68>>, <<118>>>>, <<<<100>>, <<119>>>>,
      <<<<101>>, REDIRECT \o <<101>>>> }

LinkNames == {p[1] : p \in LinkPairs}

\* Beluga::new, and a tree of small nodes.
LinkLimits == { <<INDEX_NODE_SIZE, LEAF_NODE_SIZE>>, <<60, 60>> }

InitLink ==
    /\ \E lim \in LinkLimits :
          /\ tree = Tree_new(lim[1], lim[2])
          /\ token_tree = Tree_new(lim[1], lim[2])
    /\ entry_num = 0
    /\ inserted = EmptyBag
    /\ phase = "build"
    /\ file = NoFile
    /\ \E cap \in QueryCacheCaps : cache = LruCache_new(cap)
    /\ res = NoRes

\* Dictionary::search_entry(name) on the saved file.
DictSearchEntry ==
    /\ phase = "saved"
    /\ \E name \in LinkNames :
          LET r == Dictionary_search_entry(Dictionary_new(file, 0), cache, name)
          IN  /\ res' = [op |-> "dict_search_entry", name |-> name, ret |-> r.ret,
                         status |-> r.status]
              /\ cache' = r.cache
    /\ phase' = "queried"
    /\ UNCHANGED <<tree, token_tree, entry_num, inserted, file>>

NextLink ==
    \/ InputEntry(LinkPairs)
    \/ Save
    \/ DictSearchEntry

SpecLink == InitLink /\ [][NextLink]_vars

\* What a chain of redirects from key k comes to in the inserted entries
\* when at most n entries are looked up: the first value that is no
\* redirect, or nothing.
RECURSIVE Resolved(_, _)
Resolved(k, n) ==
    IF n = 0 \/ k \notin InsertedKeys THEN <<>>
    ELSE
        LET v == CHOOSE x \in ValuesOf(k) : TRUE
        IN  IF starts_with(trim(v), REDIRECT)
            THEN Resolved(SubSeq(trim(v), Len(REDIRECT) + 1, Len(trim(v))), n - 1)
            ELSE <<v>>

\* C9: Dictionary::search_entry follows redirects: a chain of 0, 1 or 2
\* redirects from an inserted key returns the value at its end; a chain
\* that needs 3 or more redirects, or a cycle, returns absent.
C9_RedirectsResolve ==
    (res.op = "dict_search_entry" /\ res.name \in InsertedKeys) =>
        /\ res.status = "ok"
        /\ res.ret = Resolved(res.name, 3)

(***************************************************************************)
(* The cache by itself: put, get and resize on an LruCache whose values    *)
(* report sizes of 1 and 2.                                                *)
(***************************************************************************)
\* The number of put calls.
MaxPuts == 4

LruKeys == {<<0, 1>>, <<0, 2>>, <<1, 1>>}
LruVals == {[id |-> i, size |-> sz] : i \in {1, 2}, sz \in {1, 2}}
LruCaps == {1, 3}

InitLru ==
    /\ tree = Tree_new(INDEX_NODE_SIZE, LEAF_NODE_SIZE)
    /\ token_tree = Tree_new(INDEX_NODE_SIZE, LEAF_NODE_SIZE)
    /\ entry_num = 0
    /\ inserted = EmptyBag
    /\ phase = "cache"
    /\ file = NoFile
    /\ \E cap \in LruCaps : cache = LruCache_new(cap)
    /\ res = [op |-> "new", puts |-> 0, latest |-> [k \in LruKeys |-> <<>>]]

\* LruCache::put(key, val).
LruPut ==
    /\ phase = "cache"
    /\ res.puts < MaxPuts
    /\ \E key \in LruKeys, val \in LruVals :
          LET r == LruCache_put(cache, key, val)
          IN  /\ cache' = r.cache
              /\ res' = [op |-> "put", puts |-> res.puts + 1, key |-> key,
                         val |-> val, ret |-> r.ret,
                         latest |-> [res.latest EXCEPT ![key] = <<val>>]]
    /\ UNCHANGED <<tree, token_tree, entry_num, inserted, phase, file>>

\* LruCache::get(key).
LruGet ==
    /\ phase = "cache"
    /\ \E key \in LruKeys :
          res' = [op |-> "get", puts |-> res.puts, key |-> key,
                  ret |-> LruCache_get(cache, key), latest |-> res.latest]
    /\ UNCHANGED <<tree, token_tree, entry_num, inserted, phase, file, cache>>

\* LruCache::resize(size).
LruResize ==
    /\ phase = "cache"
    /\ \E size \in LruCaps :
          /\ cache' = LruCache_resize(cache, size)
          /\ res' = [op |-> "resize", puts |-> res.puts, size |-> size,
                     latest |-> res.latest]
    /\ UNCHANGED <<tree, token_tree, entry_num, inserted, phase, file>>

NextLru ==
    \/ LruPut
    \/ LruGet
    \/ LruResize

SpecLru == InitLru /\ [][NextLru]_vars

\* The sum of SizedValue::size over the entries of the cache map.
RECURSIVE ResidentSize(_, _)
ResidentSize(c, i) ==
    IF i > Len(c.map) THEN 0
    ELSE SizedValue_size(c.nodes[c.map[i][2]].val) + ResidentSize(c, i + 1)

\* C10: after any sequence of put and resize calls the sizes of the entries
\* resident in the cache map sum to at most the capacity.
C10_WithinCapacity ==
    phase = "cache" => ResidentSize(cache, 1) <= cache.cap

(***************************************************************************)
(* The tree by itself: Tree::insert on trees whose limits are small next   *)
(* to the records (what a record of more than 65536 bytes is to the limits *)
(* of Beluga::new).                                                        *)
(***************************************************************************)
\* Tree::new(index_size_limit, leaf_size_limit): the limits of SizeLimits,
\* a leaf limit of 20 that no leaf with a record of EntryPairs fits in (a
\* leaf with one record encodes to 27 or 28 bytes), and an index limit of 30
\* that no index node fits in (one separator and two children encode to 34
\* bytes or more).
InsertLimits == SizeLimits \cup { <<65536, 20>>, <<30, 36>> }

InitInsert ==
    /\ \E lim \in InsertLimits :
          /\ tree = Tree_new(lim[1], lim[2])
          /\ token_tree = Tree_new(lim[1], lim[2])
    /\ entry_num = 0
    /\ inserted = EmptyBag
    /\ phase = "build"
    /\ file = NoFile
    /\ \E cap \in QueryCacheCaps : cache = LruCache_new(cap)
    /\ res = NoRes

NextInsert == InputEntry(EntryPairs)

SpecInsert == InitInsert /\ [][NextInsert]_vars

\* The limit Tree::insert holds a node against.
LimitOf(t, node) == IF node.is_leaf THEN t.leaf_size_limit ELSE t.index_size_limit

\* C11: after every Tree::insert each node other than the root encodes to
\* at most its limit: leaf_size_limit for a leaf, index_size_limit for an
\* index node.
C11_NodesWithinLimit ==
    \A p \in 1..Len(tree.nodes) :
        p # tree.root => Node_size(tree.nodes[p]) <= LimitOf(tree, tree.nodes[p])

\* C12: when a tree with records that Tree::from_file parsed is written
\* again, every node of the tree is emitted again, each of them once, and the second file
\* is the first one byte for byte, so that it parses to the same tree.
C12_ResaveEmitsAll ==
    (res.op = "resave" /\ res.tree.nodes[res.tree.root].records # <<>>) =>
        /\ Len(res.order) = Len(res.tree.nodes)
        /\ {res.order[i] : i \in 1..Len(res.order)} = 1..Len(res.tree.nodes)
        /\ res.file = file

(***************************************************************************)
(* Tokens: entries and token records are given to a Beluga, it is saved,   *)
(* and Dictionary::search is run on the file.                              *)
(***************************************************************************)
\* The number of input_token calls before save.
MaxTokens == 2

\* The entries: "a" and "ab".
TokenEntries == { <<<<97>>, <<49>>>>, <<<<97, 98>>, <<50>>>> }

\* The token records: "a" -> ["ab", "b", "ab", "c"], "b" -> ["a"],
\* "A" -> ["b"].
TokenPairs ==
    { <<<<97>>, << <<97, 98>>, <<98>>, <<97, 98>>, <<99>> >> >>,
      <<<<98>>, << <<97>> >> >>,
      <<<<65>>, << <<98>> >> >> }

\* The phrase limits queried.
PhraseLimits == {0, 1, 2, 5}

\* Beluga::input_token(name, value).
InputToken ==
    /\ phase = "build"
    /\ Len(Tree_traverse(token_tree)) < MaxTokens
    /\ \E p \in TokenPairs :
          token_tree' = Tree_insert(token_tree, p[1], input_token_data(p[2]))
    /\ UNCHANGED <<tree, entry_num, inserted, phase, file, cache, res>>

\* Dictionary::search(name, false, prefix_limit, phrase_limit) on the
\* saved file.
DictSearch ==
    /\ phase = "saved"
    /\ \E name \in {<<97>>, <<98>>}, prefix_limit \in {1, 5},
          phrase_limit \in PhraseLimits :
          LET r == Dictionary_search(Dictionary_new(file, 0), cache, name, FALSE,
                                     prefix_limit, phrase_limit)
          IN  /\ res' = [op |-> "dict_search", name |-> name,
                         prefix_limit |-> prefix_limit, phrase_limit |-> phrase_limit,
                         result |-> r.result, prefix |-> r.prefix, found |-> r.found,
                         token_read |-> r.token_read, status |-> r.status]
              /\ cache' = r.cache
    /\ phase' = "queried"
    /\ UNCHANGED <<tree, token_tree, entry_num, inserted, file>>

NextToken ==
    \/ InputEntry(TokenEntries)
    \/ InputToken
    \/ Save
    \/ DictSearch

SpecToken == Init /\ [][NextToken]_vars

\* The elements of list that are not in prefix, each once, in the order of
\* their first occurrence, up to n of them.
FreshTokens(prefix, list, n) ==
    LET F[i \in 0..Len(list)] ==
            IF i = 0 THEN <<>>
            ELSE IF \/ \E j \in 1..Len(prefix) : prefix[j] = list[i]
                    \/ \E j \in 1..(i - 1) : list[j] = list[i]
                 THEN F[i - 1]
                 ELSE Append(F[i - 1], list[i])
    IN  Take(F[Len(list)], n)

\* C13: Dictionary::search returns the prefix results of the entry tree,
\* followed by the entries of the token record found for the name (a list
\* given to input_token under that name), in their packed order, those
\* already in the list skipped and at most phrase_limit of them appended;
\* with phrase_limit = 0 or without a token tree the token tree is not read
\* and the result is the prefix results.
C13_TokensAfterPrefix ==
    (res.op = "dict_search" /\ res.status = "ok") =>
        IF res.phrase_limit = 0 \/ EntryFile.token_root[2] = 0
        THEN ~res.token_read /\ res.result = res.prefix
        ELSE IF res.found = <<>> THEN res.result = res.prefix
        ELSE \E p \in TokenPairs :
                /\ p[1] = res.name
                /\ res.found[1] = input_token_data(p[2])
                /\ res.result = res.prefix \o FreshTokens(res.prefix, p[2], res.phrase_limit)

\* C13 witness: a search that started from two prefix results, skipped a
\* token entry that was among them and stopped at its phrase limit with
\* entries of the token record left over.
C13_Witness ==
    /\ res.op = "dict_search"
    /\ res.status = "ok"
    /\ Len(res.prefix) = 2
    /\ res.phrase_limit = 1
    /\ Len(res.result) = 3
    /\ res.found # <<>>
    /\ \E i \in 1..2 : res.prefix[i] \in
           {parse_token_entries(res.found[1], 0).entries[j] : j \in 1..4}

\* C16: every resident cache entry put by get_node reports through
\* SizedValue::size the compressed size on disk of the node stored at its
\* offset, the size argument get_node was called with.
C16_ChargedDiskSize ==
    \A i \in 1..Len(cache.map) :
        LET n == cache.nodes[cache.map[i][2]]
        IN  \E t \in 1..Len(tree.nodes) :
                /\ tree.nodes[t].offset = n.key[2]
                /\ SizedValue_size(n.val) = tree.nodes[t].zip_size

(***************************************************************************)
(* Concurrent DictFile::get_node calls on one file sharing one cache       *)
(* behind an RwLock.  A call advances at its await points:                 *)
(*   "start"  cache.read().await                                           *)
(*   "shared" cache_lock.get; return on a hit, else drop(cache_lock)       *)
(*   "seek"   file.seek(..).await                                          *)
(*   "read"   file.read_exact(..).await, then inflate and from_bytes       *)
(*   "want"   cache.write().await                                          *)
(*   "excl"   cache_lock.put, drop(cache_lock), return                     *)
(* res.calls are the calls, res.readers the calls holding the shared       *)
(* guard, res.writer the call holding the exclusive guard (0 = none).      *)
(***************************************************************************)
\* The number of get_node calls in flight.
MaxCalls == 4

\* The Beluga whose file the calls read: "a" and "b" in a tree of two
\* leaves and a root, saved.
ConcSaved ==
    Beluga_save(Tree_insert(Tree_insert(Tree_new(60, 36), <<97>>, <<49>>), <<98>>, <<53>>),
                Tree_new(60, 36))

\* The (offset, size) arguments of the calls: the two leaves of the file.
ConcRefs ==
    {<<ConcSaved.entry_tree.nodes[n].offset, ConcSaved.entry_tree.nodes[n].zip_size>> :
        n \in {m \in 1..Len(ConcSaved.entry_tree.nodes) :
                  ConcSaved.entry_tree.nodes[m].is_leaf}}

\* n calls of get_node on the entry file of the saved Beluga, none of them
\* started, with an empty cache.
ConcInit(n) ==
    /\ tree = ConcSaved.entry_tree
    /\ token_tree = ConcSaved.token_tree
    /\ entry_num = 2
    /\ inserted = SetToBag({<<<<97>>, <<49>>>>, <<<<98>>, <<53>>>>})
    /\ phase = "conc"
    /\ file = ConcSaved.file
    /\ \E cap \in QueryCacheCaps : cache = LruCache_new(cap)
    /\ \E refs \in [1..n -> ConcRefs] :
          res = [op |-> "get_node",
                 calls |-> [p \in 1..n |->
                              [pc |-> "start", offset |-> refs[p][1], size |-> refs[p][2],
                               dnode |-> <<>>, ret |-> <<>>]],
                 readers |-> {}, writer |-> 0]

InitConc == ConcInit(MaxCalls)

\* cache.read().await: the shared guard is granted while no call holds the
\* exclusive guard.
GnTakeShared(p) ==
    /\ phase = "conc"
    /\ res.calls[p].pc = "start"
    /\ res.writer = 0
    /\ res' = [res EXCEPT !.calls[p].pc = "shared", !.readers = @ \cup {p}]
    /\ UNCHANGED <<tree, token_tree, entry_num, inserted, phase, file, cache>>

\* A variant of GnLookup that keeps the shared guard after a miss.
GnLookup_KeepsGuard(p) ==
    /\ phase = "conc"
    /\ res.calls[p].pc = "shared"
    /\ LET hit == LruCache_get(cache, <<EntryFile.cache_id, res.calls[p].offset>>)
       IN  res' = [res EXCEPT !.calls[p].pc = IF hit # <<>> THEN "done" ELSE "seek",
                              !.calls[p].ret = hit,
                              !.readers = IF hit # <<>> THEN @ \ {p} ELSE @]
    /\ UNCHANGED <<tree, token_tree, entry_num, inserted, phase, file, cache>>

\* cache_lock.get(&(cache_id, offset)): on a hit the node is returned (and
\* the guard dropped with it), on a miss the guard is dropped.
GnLookup(p) ==
    /\ phase = "conc"
    /\ res.calls[p].pc = "shared"
    /\ LET hit == LruCache_get(cache, <<EntryFile.cache_id, res.calls[p].offset>>)
       IN  res' = [res EXCEPT !.calls[p].pc = IF hit # <<>> THEN "done" ELSE "seek",
                              !.calls[p].ret = hit,
                              !.readers = @ \ {p}]
    /\ UNCHANGED <<tree, token_tree, entry_num, inserted, phase, file, cache>>

\* file.seek(SeekFrom::Start(offset)).await.
GnSeek(p) ==
    /\ phase = "conc"
    /\ res.calls[p].pc = "seek"
    /\ res' = [res EXCEPT !.calls[p].pc = "read"]
    /\ UNCHANGED <<tree, token_tree, entry_num, inserted, phase, file, cache>>

\* file.read_exact(&mut buf).await, then the bytes are inflated (data) and
\* decoded (d) into a DictNode; a failed read returns None, a failed unwrap
\* or a decode beyond the end of the data panics.
GnRead(p) ==
    /\ phase = "conc"
    /\ res.calls[p].pc = "read"
    /\ \E buf \in {FileRead(file, res.calls[p].offset, res.calls[p].size)} :
       \E data \in {IF buf = <<>> THEN <<>> ELSE inflate(buf[1])} :
       \E d \in {Node_from_bytes(IF data = <<>> THEN <<>> ELSE data[1])} :
          res' = [res EXCEPT
              !.calls[p].pc = IF buf = <<>> THEN "done"
                              ELSE IF d.ok THEN "want" ELSE "panic",
              !.calls[p].dnode = IF d.ok THEN <<DictNode_new(d.node, d.children)>>
                                 ELSE <<>>]
    /\ UNCHANGED <<tree, token_tree, entry_num, inserted, phase, file, cache>>

\* cache.write().await: the exclusive guard is granted while no call holds
\* a guard.
GnTakeExclusive(p) ==
    /\ phase = "conc"
    /\ res.calls[p].pc = "want"
    /\ res.writer = 0
    /\ res.readers = {}
    /\ res' = [res EXCEPT !.calls[p].pc = "excl", !.writer = p]
    /\ UNCHANGED <<tree, token_tree, entry_num, inserted, phase, file, cache>>

\* A variant of GnPut that returns without dropping the exclusive guard.
GnPut_KeepsGuard(p) ==
    /\ phase = "conc"
    /\ res.calls[p].pc = "excl"
    /\ LET r == LruCache_put(cache, <<EntryFile.cache_id, res.calls[p].offset>>,
                             res.calls[p].dnode[1])
       IN  /\ cache' = r.cache
           /\ res' = [res EXCEPT !.calls[p].pc = "done",
                                  !.calls[p].ret = <<r.ret>>]
    /\ UNCHANGED <<tree, token_tree, entry_num, inserted, phase, file>>

\* cache_lock.put((cache_id, offset), dnode), drop(cache_lock) and the
\* return of the value put gave back.
GnPut(p) ==
    /\ phase = "conc"
    /\ res.calls[p].pc = "excl"
    /\ LET r == LruCache_put(cache, <<EntryFile.cache_id, res.calls[p].offset>>,
                             res.calls[p].dnode[1])
       IN  /\ cache' = r.cache
           /\ res' = [res EXCEPT !.calls[p].pc = "done",
                                  !.calls[p].ret = <<r.ret>>,
                                  !.writer = 0]
    /\ UNCHANGED <<tree, token_tree, entry_num, inserted, phase, file>>

NextConc ==
    \E p \in 1..MaxCalls :
        \/ GnTakeShared(p)
        \/ GnLookup(p)
        \/ GnSeek(p)
        \/ GnRead(p)
        \/ GnTakeExclusive(p)
        \/ GnPut(p)

SpecConc == InitConc /\ [][NextConc]_vars

\* The next step of call p, whichever it is.
GnStep(p) ==
    \/ GnTakeShared(p)
    \/ GnLookup(p)
    \/ GnSeek(p)
    \/ GnRead(p)
    \/ GnTakeExclusive(p)
    \/ GnPut(p)

\* The number of calls under the fair scheduler.
MaxFairCalls == 3

InitConcFair == ConcInit(MaxFairCalls)

NextConcFair == \E p \in 1..MaxFairCalls : GnStep(p)

\* The calls under a fair scheduler: the runtime polls every task that can
\* make progress, and the RwLock grants a guard that stays available to a
\* call waiting for it.
SpecConcFair ==
    /\ InitConcFair
    /\ [][NextConcFair]_vars
    /\ \A p \in 1..MaxFairCalls : WF_vars(GnStep(p))

\* The calls that hold a guard of the cache.
Holders == res.readers \cup (IF res.writer = 0 THEN {} ELSE {res.writer})

\* C14: a get_node call holds neither guard of the cache while its seek or
\* its read is in progress: the shared guard is held only for the lookup
\* and the exclusive guard only for the put.
C14_NoGuardAcrossIO ==
    phase = "conc" =>
        \A p \in 1..MaxCalls :
            /\ res.calls[p].pc \in {"seek", "read"} => p \notin Holders
            /\ p \in res.readers => res.calls[p].pc = "shared"
            /\ res.writer = p => res.calls[p].pc = "excl"

\* C14 witness: a call is reading the file while another call holds the
\* exclusive guard and a third has put its node and returned.
C14_Witness ==
    /\ phase = "conc"
    /\ \E p, q, r \in 1..MaxCalls :
          /\ res.calls[p].pc = "read"
          /\ res.writer = q
          /\ res.calls[r].pc = "done" /\ res.calls[r].ret # <<>>

\* The DictNode decoded from the bytes at a (offset, size) of the file.
ContentAt(offset, size) ==
    DictNode_new(ReadRef(file, <<offset, size>>).node,
                 ReadRef(file, <<offset, size>>).children)

\* C15: every get_node call that returns a node returns the content decoded
\* from its own (cache_id, offset), and once a call has put a key the
\* cache holds one entry for it, with that content.
C15_OwnContent ==
    phase = "conc" =>
        \A p \in 1..MaxCalls :
            (res.calls[p].pc = "done" /\ res.calls[p].ret # <<>>) =>
                /\ res.calls[p].ret[1] = ContentAt(res.calls[p].offset, res.calls[p].size)
                /\ Cardinality({i \in 1..Len(cache.map) :
                        cache.map[i][1] = <<EntryFile.cache_id, res.calls[p].offset>>}) = 1
                /\ LruCache_get(cache, <<EntryFile.cache_id, res.calls[p].offset>>)
                       = <<ContentAt(res.calls[p].offset, res.calls[p].size)>>

(***************************************************************************)
(* A dict file that is damaged after it was opened: Dictionary::new reads  *)
(* the roots from the intact file, a query may fill the cache, then the    *)
(* file is truncated or a node's bytes are overwritten, and get_node and   *)
(* DictFile::search run on what is left.  res.df is the DictFile as        *)
(* opened; its file field keeps the intact bytes.                          *)
(***************************************************************************)
\* The entries the damaged dictionaries are built from.
DamagePairs == { <<<<97>>, <<49>>>>, <<<<97, 98>>, <<50>>>>, <<<<98>>, <<53>>>> }

\* The names queried on a damaged file.
DamageNames == { <<97>>, <<98>> }

\* The prefix limits queried on a damaged file.
DamageLimits == {1, 5}

InitDamage ==
    /\ tree = Tree_new(60, 36)
    /\ token_tree = Tree_new(60, 36)
    /\ entry_num = 0
    /\ inserted = EmptyBag
    /\ phase = "build"
    /\ file = NoFile
    /\ cache = LruCache_new(4096)
    /\ res = NoRes

\* Dictionary::new on the saved file.
OpenDict ==
    /\ phase = "saved"
    /\ res' = [op |-> "open", df |-> Dictionary_new(file, 0).entry]
    /\ phase' = "opened"
    /\ UNCHANGED <<tree, token_tree, entry_num, inserted, file, cache>>

\* The opened DictFile over the bytes the file holds now.
OpenedFile == [res.df EXCEPT !.file = file]

\* DictFile::search on the opened file, before or after the damage.
SearchOpened ==
    /\ phase \in {"opened", "damaged"}
    /\ \E name \in DamageNames, strict \in BOOLEAN, prefix_limit \in DamageLimits :
          LET r == DictFile_search(OpenedFile, cache, name, strict, prefix_limit)
          IN  /\ res' = [op |-> "search", df |-> res.df, name |-> name,
                         strict |-> strict, prefix_limit |-> prefix_limit,
                         result |-> r.result, visited |-> r.visited,
                         status |-> r.status, before |-> cache,
                         damaged |-> phase = "damaged"]
              /\ cache' = r.cache
    /\ phase' = IF phase = "opened" THEN "warmed" ELSE "queried"
    /\ UNCHANGED <<tree, token_tree, entry_num, inserted, file>>

\* The file is cut at the offset of one of its nodes: a read_exact of that
\* node or of a later one meets the end of the file.
Truncate ==
    /\ phase \in {"opened", "warmed"}
    /\ \E t \in 1..Len(tree.nodes) :
          /\ tree.nodes[t].offset > file.head_len
          /\ file' = [file EXCEPT
                         !.data = SubSeq(@, 1, tree.nodes[t].offset - file.head_len)]
    /\ res' = [op |-> "truncate", df |-> res.df]
    /\ phase' = "damaged"
    /\ UNCHANGED <<tree, token_tree, entry_num, inserted, cache>>

\* Byte i (1-based, past the head) of the file is overwritten with b.
FileSetByte(f, i, b) == [f EXCEPT !.data[i - f.head_len] = b]

\* One node's bytes are overwritten: either the first byte of its Deflate
\* stream (block type 11, which no decoder accepts), or the low byte of the
\* record count inside the stream (more records than the node holds).
Corrupt ==
    /\ phase \in {"opened", "warmed"}
    /\ \E t \in 1..Len(tree.nodes), at \in {1, 10} :
          /\ tree.nodes[t].offset > file.head_len
          /\ file' = FileSetByte(file, tree.nodes[t].offset + at,
                                 IF at = 1 THEN 7 ELSE 9)
    /\ res' = [op |-> "corrupt", df |-> res.df]
    /\ phase' = "damaged"
    /\ UNCHANGED <<tree, token_tree, entry_num, inserted, cache>>

\* DictFile::get_node on the damaged file for the reference of a node.
GetNode ==
    /\ phase = "damaged"
    /\ \E t \in 1..Len(tree.nodes) :
          /\ tree.nodes[t].offset > file.head_len
          /\ LET g == get_node(OpenedFile, cache, tree.nodes[t].offset,
                               tree.nodes[t].zip_size)
             IN  /\ res' = [op |-> "get_node", df |-> res.df,
                            offset |-> tree.nodes[t].offset,
                            size |-> tree.nodes[t].zip_size,
                            node |-> g.node, panic |-> g.panic, before |-> cache]
                 /\ cache' = g.cache
    /\ phase' = "queried"
    /\ UNCHANGED <<tree, token_tree, entry_num, inserted, file>>

NextDamage ==
    \/ InputEntry(DamagePairs)
    \/ Save
    \/ OpenDict
    \/ SearchOpened
    \/ Truncate
    \/ Corrupt
    \/ GetNode

SpecDamage == InitDamage /\ [][NextDamage]_vars

\* The get_node call in res missed the cache and its read met the end of
\* the file.
ReadFailed ==
    /\ res.op = "get_node"
    /\ LruCache_get(res.before, <<res.df.cache_id, res.offset>>) = <<>>
    /\ FileRead(file, res.offset, res.size) = <<>>

\* C17: when the seek or the read of a node fails, get_node returns None and
\* the cache (map, recency list, charged total) is as it was before the call.
C17_FailedReadLeavesCache == ReadFailed => res.node = <<>> /\ cache = res.before

C17_Witness == ReadFailed /\ res.node = <<>> /\ ~res.panic /\ cache.map # <<>>

\* The get_node call in res missed the cache, read its bytes, and the bytes
\* do not inflate or do not decode.
ReadUndecodable ==
    /\ res.op = "get_node"
    /\ LruCache_get(res.before, <<res.df.cache_id, res.offset>>) = <<>>
    /\ FileRead(file, res.offset, res.size) # <<>>
    /\ ~ReadRef(file, <<res.offset, res.size>>).ok

\* C18: when the bytes read for a node cannot be inflated or decoded,
\* get_node returns None to its caller and does not abort.
C18_UndecodableIsNone == ReadUndecodable => res.node = <<>> /\ ~res.panic

\* get_node answers Some for ref during the search in res: the node was in
\* the cache before the search, or its bytes can still be read.
Available(ref) ==
    \/ LruCache_get(res.before, <<res.df.cache_id, ref[1]>>) # <<>>
    \/ FileRead(file, ref[1], ref[2]) # <<>>

\* The keys a search accepts up to the first node that is not available,
\* read from the intact file: from record i of the leaf at ref along the
\* next-leaf chain.  failed tells that such a node was met.
RECURSIVE AcceptedAlongChain(_, _, _)
AcceptedAlongChain(ref, i, acc) ==
    IF ref[1] = 0 THEN [result |-> acc.result, failed |-> FALSE]
    ELSE IF ~Available(ref) THEN [result |-> acc.result, failed |-> TRUE]
    ELSE LET d == ReadRef(res.df.file, ref)
             a == ScanPrefix(d.node.records, i, res.name, res.strict,
                             res.prefix_limit, acc)
         IN  IF a.done THEN [result |-> a.result, failed |-> FALSE]
             ELSE AcceptedAlongChain(d.children[1], 1, a)

\* The same for the descent from ref to the leaf the chain starts at.
RECURSIVE AcceptedBelow(_)
AcceptedBelow(ref) ==
    IF ~Available(ref) THEN [result |-> <<>>, failed |-> TRUE]
    ELSE LET d == ReadRef(res.df.file, ref)
             r == index_of(d.node, res.name)
             idx == IF is_le(r[2]) THEN r[1] ELSE r[1] + 1
         IN  IF d.node.is_leaf
             THEN AcceptedAlongChain(ref, idx + 1,
                                     [result |-> <<>>, visited |-> <<>>, done |-> FALSE])
             ELSE AcceptedBelow(d.children[idx + 1])

\* The search in res ran on the damaged file, returned, and one of its
\* get_node calls answered None.
SearchMetFailure ==
    /\ res.op = "search"
    /\ res.damaged
    /\ res.status = "ok"
    /\ AcceptedBelow(res.df.entry_root).failed

\* C19: if get_node returns None while DictFile::search is scanning, at the
\* descent or at a leaf of the next-leaf chain, search returns exactly the
\* keys it had accepted before the failure, in order.
C19_KeysBeforeFailure ==
    SearchMetFailure => res.result = AcceptedBelow(res.df.entry_root).result

C19_Witness ==
    /\ SearchMetFailure
    /\ res.result # <<>>
    /\ res.result = AcceptedBelow(res.df.entry_root).result

(***************************************************************************)
(* Bookshelf (bookshelf.rs).  res holds the bookshelf: dict_id,            *)
(* dictionaries (pairs of id and Dictionary), cache_id; cache is its       *)
(* cache.  res.ever lists every dict file that was registered, with the    *)
(* cache_id it was opened under, res.issued every handle add returned, and *)
(* res.last is the last call.                                              *)
(***************************************************************************)
\* The number of calls of Bookshelf::add.
MaxAdds == 2

\* The DictNode decoded from the bytes of file f at ref.
ContentIn(f, ref) == DictNode_new(ReadRef(f, ref).node, ReadRef(f, ref).children)

\* A file saved from a tree with the single entry key -> value.
ShelfSaved(key, value) ==
    Beluga_save(Tree_insert(Tree_new(60, 36), key, value), Tree_new(60, 36)).file

\* The paths given to add: path 1 is an entry file without resource files,
\* path 2 an entry file with one resource file, path 3 does not exist,
\* path 4 has another extension than the entry extension, path 5 starts
\* with another spec number than SPEC, the metadata of path 6 is not the
\* JSON of a Metadata, and path 7 is an entry file whose resource file
\* starts with another spec number.
ShelfPaths == 1..7
PathExists(path) == path # 3
PathIsEntry(path) == path # 4
PathEntry(path) == IF path = 1 THEN ShelfSaved(<<97>>, <<49>>) ELSE ShelfSaved(<<98>>, <<53>>)
PathResources(path) ==
    IF path \in {2, 7} THEN <<ShelfSaved(<<97>>, <<55>>)>> ELSE <<>>

\* pub const SPEC: u16 = 1.
SPEC == 1

\* What DictFile::new reads at the head of the entry file and of the
\* resource files of a path: the spec number, and whether serde_json
\* parses the metadata.
EntrySpec(path) == IF path = 5 THEN 2 ELSE SPEC
EntryMetadataParses(path) == path # 6
ResourceSpec(path) == IF path = 7 THEN 2 ELSE SPEC

\* DictFile::new(filepath, cache_id) for a file f that starts with the
\* spec number spec: Err (an empty Option) or the DictFile.
DictFile_new_checked(f, spec, metadata_parses, cache_id) ==
    IF spec # SPEC \/ ~metadata_parses THEN <<>> ELSE <<DictFile_new(f, cache_id)>>

\* The loop of Dictionary::new over the resource files beside the entry
\* file: cache_id is incremented before each one is opened.
RECURSIVE OpenResources(_, _, _, _)
OpenResources(files, i, cache_id, resources) ==
    IF i > Len(files) THEN [resources |-> resources, cache_id |-> cache_id]
    ELSE OpenResources(files, i + 1, cache_id + 1,
                       Append(resources, DictFile_new(files[i], cache_id + 1)))

\* Dictionary::new once the entry file (an Option) is opened: the resource
\* files are opened next, and an Err of one of them is the Err of the call.
DictionaryOfEntry(path, entry, cache_id) ==
    IF entry = <<>> \/ (PathResources(path) # <<>> /\ ResourceSpec(path) # SPEC)
    THEN [ok |-> FALSE]
    ELSE [ok |-> TRUE,
          dict |-> [entry |-> entry[1],
                    resources |-> OpenResources(PathResources(path), 1, cache_id,
                                                <<>>).resources],
          cache_id |-> OpenResources(PathResources(path), 1, cache_id, <<>>).cache_id]

\* Dictionary::new(filepath, cache_id): Err for a path that is not an
\* entry file or does not exist and for a dict file DictFile::new rejects,
\* else the dictionary and the last cache_id it used.
Dictionary_new_at(path, cache_id) ==
    IF ~PathIsEntry(path) \/ ~PathExists(path) THEN [ok |-> FALSE]
    ELSE DictionaryOfEntry(path,
                           DictFile_new_checked(PathEntry(path), EntrySpec(path),
                                                EntryMetadataParses(path), cache_id),
                           cache_id)

\* The dict files of a dictionary with their cache_ids.
DictFilesOf(dict) ==
    <<[cache_id |-> dict.entry.cache_id, file |-> dict.entry.file]>> \o
    [i \in 1..Len(dict.resources) |->
        [cache_id |-> dict.resources[i].cache_id, file |-> dict.resources[i].file]]

\* A variant of AddOpened that advances cache_id before it looks at the
\* answer of Dictionary::new.
AddOpened_CountsFailure(b, r, next_id) ==
    IF ~r.ok THEN [b EXCEPT !.cache_id = @ + 1, !.last = [op |-> "add", ok |-> FALSE, ret |-> <<>>]]
    ELSE [b EXCEPT !.cache_id = next_id,
                   !.dictionaries = Append(@, <<b.dict_id, r.dict>>),
                   !.dict_id = @ + 1,
                   !.ever = @ \o DictFilesOf(r.dict),
                   !.last = [op |-> "add", ok |-> TRUE, ret |-> <<b.dict_id>>]]

\* A variant of AddOpened that takes the number of registered dictionaries
\* for the handle.
AddOpened_HandleIsLength(b, r, next_id) ==
    IF ~r.ok THEN [b EXCEPT !.last = [op |-> "add", ok |-> FALSE, ret |-> <<>>]]
    ELSE [b EXCEPT !.cache_id = next_id,
                   !.dictionaries = Append(@, <<Len(b.dictionaries), r.dict>>),
                   !.dict_id = @ + 1,
                   !.ever = @ \o DictFilesOf(r.dict),
                   !.last = [op |-> "add", ok |-> TRUE, ret |-> <<Len(b.dictionaries)>>]]

\* Bookshelf::add once Dictionary::new has answered r, next_id being the
\* cache_id kept for the next call; last.ret is the handle returned.
AddOpened(b, r, next_id) ==
    IF ~r.ok THEN [b EXCEPT !.last = [op |-> "add", ok |-> FALSE, ret |-> <<>>]]
    ELSE [b EXCEPT !.cache_id = next_id,
                   !.dictionaries = Append(@, <<b.dict_id, r.dict>>),
                   !.dict_id = @ + 1,
                   !.ever = @ \o DictFilesOf(r.dict),
                   !.last = [op |-> "add", ok |-> TRUE, ret |-> <<b.dict_id>>]]

\* A variant of Bookshelf_add that continues from the last cache_id used.
Bookshelf_add_ReusesLastId(b, path) ==
    AddOpened(b, Dictionary_new_at(path, b.cache_id),
              IF Dictionary_new_at(path, b.cache_id).ok
              THEN Dictionary_new_at(path, b.cache_id).cache_id
              ELSE b.cache_id)

\* Bookshelf::add.
Bookshelf_add(b, path) ==
    AddOpened(b, Dictionary_new_at(path, b.cache_id),
              IF Dictionary_new_at(path, b.cache_id).ok
              THEN Dictionary_new_at(path, b.cache_id).cache_id + 1
              ELSE b.cache_id)

\* Bookshelf::remove: the last dictionary registered under id is removed.
Bookshelf_remove(b, id) ==
    LET found == {i \in 1..Len(b.dictionaries) : b.dictionaries[i][1] = id}
    IN  IF found = {} THEN [b EXCEPT !.last = [op |-> "remove"]]
        ELSE LET index == CHOOSE i \in found : \A j \in found : j <= i
             IN  [b EXCEPT !.dictionaries = SubSeq(@, 1, index - 1) \o
                                            SubSeq(@, index + 1, Len(@)),
                           !.last = [op |-> "remove"]]

\* Bookshelf::clear.
Bookshelf_clear(b) == [b EXCEPT !.dictionaries = <<>>, !.last = [op |-> "clear"]]

\* The first dictionary registered under id, as an Option.
ShelfDict(b, id) ==
    LET found == {i \in 1..Len(b.dictionaries) : b.dictionaries[i][1] = id}
    IN  IF found = {} THEN <<>>
        ELSE <<b.dictionaries[CHOOSE i \in found : \A j \in found : i <= j][2]>>

\* A variant of ShelfSearchIn without the test for an empty word.
ShelfSearchIn_SearchesEmptyWord(d, c, word, limit) ==
    IF d = <<>> THEN [out |-> <<>>, cache |-> c]
    ELSE [out |-> DictFile_search(d[1].entry, c, word, FALSE, limit).result,
          cache |-> DictFile_search(d[1].entry, c, word, FALSE, limit).cache]

\* Bookshelf::search once the dictionary d (an Option) is found.
ShelfSearchIn(d, c, word, limit) ==
    IF word = <<>> \/ d = <<>> THEN [out |-> <<>>, cache |-> c]
    ELSE [out |-> DictFile_search(d[1].entry, c, word, FALSE, limit).result,
          cache |-> DictFile_search(d[1].entry, c, word, FALSE, limit).cache]

\* Bookshelf::search(id, word, limit): the keys found and the cache after.
Bookshelf_search(b, c, id, word, limit) == ShelfSearchIn(ShelfDict(b, id), c, word, limit)

RECURSIVE ResourceLoop(_, _, _, _)

\* The loop of Dictionary::search_resource after search_entry answered r
\* for resource file i.
ResourceStep(resources, i, r, name) ==
    IF r.ret # <<>> THEN [out |-> r.ret, cache |-> r.cache]
    ELSE ResourceLoop(resources, i + 1, r.cache, name)

\* The loop of Dictionary::search_resource over the resource files.
ResourceLoop(resources, i, c, name) ==
    IF i > Len(resources) THEN [out |-> <<>>, cache |-> c]
    ELSE ResourceStep(resources, i,
                      DictFile_search_entry(resources[i], c, resources[i].entry_root, name),
                      name)

\* Bookshelf::search_resource once the dictionary d (an Option) is found.
ShelfResourceIn(d, c, name) ==
    IF name = <<>> \/ d = <<>> THEN [out |-> <<>>, cache |-> c]
    ELSE ResourceLoop(d[1].resources, 1, c, name)

\* Bookshelf::search_resource(id, name).
Bookshelf_search_resource(b, c, id, name) == ShelfResourceIn(ShelfDict(b, id), c, name)

\* Bookshelf::search_word once the dictionary d (an Option) is found; the
\* dictionary is asked through Dictionary::search_entry.
ShelfWordIn(d, c, name) ==
    IF name = <<>> \/ d = <<>> THEN [out |-> <<>>, cache |-> c]
    ELSE [out |-> Dictionary_search_entry(d[1], c, name).ret,
          cache |-> Dictionary_search_entry(d[1], c, name).cache]

\* Bookshelf::search_word(id, name).
Bookshelf_search_word(b, c, id, name) == ShelfWordIn(ShelfDict(b, id), c, name)

\* The words looked up.
ShelfWords == { <<>>, <<97>> }

\* Bookshelf::new(cap).
InitShelf ==
    /\ tree = Tree_new(60, 36)
    /\ token_tree = Tree_new(60, 36)
    /\ entry_num = 0
    /\ inserted = EmptyBag
    /\ phase = "shelf"
    /\ file = NoFile
    /\ cache = LruCache_new(4096)
    /\ res = [op |-> "shelf", dict_id |-> 0, dictionaries |-> <<>>, cache_id |-> 0,
              ever |-> <<>>, issued |-> <<>>, last |-> [op |-> "new"]]

BsAdd ==
    /\ phase = "shelf"
    /\ res.dict_id < MaxAdds
    /\ \E path \in ShelfPaths :
          res' = [Bookshelf_add(res, path) EXCEPT
                     !.last = [op |-> "add", ok |-> @.ok, ret |-> @.ret, path |-> path],
                     !.issued = @ \o Bookshelf_add(res, path).last.ret]
    /\ UNCHANGED <<tree, token_tree, entry_num, inserted, phase, file, cache>>

BsRemove ==
    /\ phase = "shelf"
    /\ \E id \in 0..MaxAdds - 1 :
          res' = [Bookshelf_remove(res, id) EXCEPT !.last = [op |-> "remove", id |-> id]]
    /\ UNCHANGED <<tree, token_tree, entry_num, inserted, phase, file, cache>>

BsClear ==
    /\ phase = "shelf"
    /\ res' = Bookshelf_clear(res)
    /\ UNCHANGED <<tree, token_tree, entry_num, inserted, phase, file, cache>>

BsSearch ==
    /\ phase = "shelf"
    /\ \E id \in 0..MaxAdds - 1, word \in ShelfWords :
          /\ res' = [res EXCEPT !.last = [op |-> "search", id |-> id, word |-> word,
                                          out |-> Bookshelf_search(res, cache, id, word, 5).out]]
          /\ cache' = Bookshelf_search(res, cache, id, word, 5).cache
    /\ UNCHANGED <<tree, token_tree, entry_num, inserted, phase, file>>

BsSearchResource ==
    /\ phase = "shelf"
    /\ \E id \in 0..MaxAdds - 1, name \in ShelfWords :
          /\ res' = [res EXCEPT !.last = [op |-> "search_resource", id |-> id,
                                          word |-> name,
                                          out |-> Bookshelf_search_resource(res, cache, id, name).out]]
          /\ cache' = Bookshelf_search_resource(res, cache, id, name).cache
    /\ UNCHANGED <<tree, token_tree, entry_num, inserted, phase, file>>

BsSearchWord ==
    /\ phase = "shelf"
    /\ \E id \in 0..MaxAdds - 1, name \in ShelfWords :
          /\ res' = [res EXCEPT !.last = [op |-> "search_word", id |-> id,
                                          word |-> name,
                                          out |-> Bookshelf_search_word(res, cache, id, name).out]]
          /\ cache' = Bookshelf_search_word(res, cache, id, name).cache
    /\ UNCHANGED <<tree, token_tree, entry_num, inserted, phase, file>>

NextShelf ==
    \/ BsAdd
    \/ BsRemove
    \/ BsClear
    \/ BsSearch
    \/ BsSearchResource
    \/ BsSearchWord

SpecShelf == InitShelf /\ [][NextShelf]_vars

\* val is the node stored at offset in a registered file opened under
\* cache_id; the files registered hold one node each, their root.
StoredUnder(cache_id, offset, val) ==
    \E i \in 1..Len(res.ever) :
        /\ res.ever[i].cache_id = cache_id
        /\ offset = DictFile_new(res.ever[i].file, cache_id).entry_root[1]
        /\ val = ContentIn(res.ever[i].file,
                           DictFile_new(res.ever[i].file, cache_id).entry_root)

\* What the last lookup returns when it runs with an empty cache.
LastFromFiles ==
    IF res.last.op = "search"
    THEN Bookshelf_search(res, LruCache_new(cache.cap), res.last.id, res.last.word, 5).out
    ELSE IF res.last.op = "search_word"
    THEN Bookshelf_search_word(res, LruCache_new(cache.cap), res.last.id,
                               res.last.word).out
    ELSE Bookshelf_search_resource(res, LruCache_new(cache.cap), res.last.id,
                                   res.last.word).out

\* C20: the dict files of all dictionaries that were ever registered have
\* pairwise distinct cache_ids, also after remove and clear; every cache
\* entry holds a node of the one file opened under the cache_id of its key,
\* and a lookup returns what the files of its own dictionary hold.
C20_DistinctCacheIds ==
    /\ \A i, j \in 1..Len(res.ever) :
          i # j => res.ever[i].cache_id # res.ever[j].cache_id
    /\ \A i \in 1..Len(res.ever) : res.ever[i].cache_id < res.cache_id
    /\ \A k \in 1..Len(cache.map) :
          StoredUnder(cache.map[k][1][1], cache.map[k][1][2],
                      cache.nodes[cache.map[k][2]].val)
    /\ res.last.op \in {"search", "search_resource", "search_word"}
          => res.last.out = LastFromFiles

C20_Witness ==
    /\ Len(res.ever) >= 3
    /\ Len(res.dictionaries) < res.dict_id
    /\ Len(cache.map) >= 2
    /\ res.last.op = "search"
    /\ res.last.out # <<>>

\* C21: when Bookshelf::add fails (wrong extension, missing file, wrong spec
\* number, unparsable metadata) the bookshelf is unchanged: no dictionary is
\* registered, and the handle counter, the cache-id counter and the cache
\* keep their values.
C21_FailedAddChangesNothing ==
    [][(res'.op = "shelf" /\ res'.last.op = "add" /\ ~res'.last.ok) =>
          /\ res'.dictionaries = res.dictionaries
          /\ res'.dict_id = res.dict_id
          /\ res'.cache_id = res.cache_id
          /\ res'.ever = res.ever
          /\ cache' = cache]_vars

C21_Witness ==
    /\ res.last.op = "add"
    /\ ~res.last.ok
    /\ res.last.path \in {5, 6}
    /\ res.dictionaries # <<>>
    /\ cache.map # <<>>

\* The step is a lookup with an empty query string or with a handle that
\* is not registered.
LookupOfNothing ==
    /\ res.op = "shelf"
    /\ res'.op = "shelf"
    /\ res'.last.op \in {"search", "search_word", "search_resource"}
    /\ (res'.last.word = <<>> \/ \A i \in 1..Len(res.dictionaries) :
                                      res.dictionaries[i][1] # res'.last.id)

\* C22: Bookshelf search, search_word and search_resource return an empty
\* list or None, without querying any dictionary, when the query string is
\* empty or the handle is not currently registered.
C22_NothingForUnknown ==
    [][LookupOfNothing =>
          /\ res'.last.out = <<>>
          /\ cache' = cache
          /\ res'.dictionaries = res.dictionaries]_vars

\* A lookup under a handle that was issued and then removed or cleared,
\* with dictionaries registered and nodes cached.
C22_Witness ==
    /\ res.op = "shelf"
    /\ res.last.op \in {"search", "search_word", "search_resource"}
    /\ res.last.word # <<>>
    /\ res.last.id < res.dict_id
    /\ \A i \in 1..Len(res.dictionaries) : res.dictionaries[i][1] # res.last.id
    /\ res.last.out = <<>>
    /\ res.dictionaries # <<>>
    /\ cache.map # <<>>

\* The keys met on the walk from node ptr through the next pointers, at
\* most fuel of them.
RECURSIVE KeysFrom(_, _, _)
KeysFrom(c, ptr, fuel) ==
    IF ptr = 0 \/ fuel = 0 THEN <<>>
    ELSE <<c.nodes[ptr].key>> \o KeysFrom(c, c.nodes[ptr].next, fuel - 1)

\* The recency list of cache c from its head.
RecencyList(c) == KeysFrom(c, c.head, Len(c.nodes) + 1)

\* C23: after LruCache::put(k, v), for k new or already resident, the walk
\* from head through the next pointers visits k first and then every other
\* resident key in its previous relative order, and put returns v.
C23_PutMovesToHead ==
    [][(phase = "cache" /\ res'.op = "put" /\ res'.puts = res.puts + 1) =>
          /\ res'.ret = res'.val
          /\ RecencyList(cache') =
                 <<res'.key>> \o SelectSeq(RecencyList(cache),
                                           LAMBDA k : k # res'.key /\ MapHas(cache'.map, k))]_vars

\* C24: LruCache::get(k) leaves the cache unchanged (map, recency order,
\* charged total, capacity) and returns the value most recently put under k
\* if k is resident, None otherwise.
C24_GetIsPure ==
    [][(phase = "cache" /\ res'.op = "get") =>
          /\ cache' = cache
          /\ res'.ret = IF MapHas(cache.map, res'.key) THEN res.latest[res'.key]
                        ELSE <<>>]_vars

\* A get of a resident key that is not at the head, and a get of a key
\* that is not resident, both with two or more keys resident.
C24_Witness ==
    /\ phase = "cache"
    /\ res.op = "get"
    /\ Len(cache.map) >= 2
    /\ res.ret # <<>>
    /\ cache.nodes[cache.head].key # res.key
    /\ cache.nodes[cache.head].val # res.ret[1]

\* The smoothed keys of the leaves below node ptr of tree t, from the
\* left-most leaf to the right-most one.
RECURSIVE KeysBelow(_, _), KeysBelowChildren(_, _, _)
KeysBelow(t, ptr) ==
    IF t.nodes[ptr].is_leaf
    THEN [i \in 1..Len(t.nodes[ptr].records) |-> smooth(t.nodes[ptr].records[i].key)]
    ELSE KeysBelowChildren(t, t.nodes[ptr].children, 1)

KeysBelowChildren(t, children, i) ==
    IF i > Len(children) THEN <<>>
    ELSE KeysBelow(t, children[i]) \o KeysBelowChildren(t, children, i + 1)

\* A sequence of keys in non-decreasing order.
NonDecreasing(keys) == \A i \in 1..Len(keys) - 1 : is_le(cmp(keys[i], keys[i + 1]))

\* C25: after any sequence of Tree::insert calls the records of every leaf
\* are in non-decreasing order of smoothed key, and the leaves concatenated
\* from left to right give a non-decreasing sequence of smoothed keys.
C25_LeavesSorted ==
    phase = "build" =>
        /\ \A p \in 1..Len(tree.nodes) :
               tree.nodes[p].is_leaf => NonDecreasing(KeysBelow(tree, p))
        /\ NonDecreasing(KeysBelow(tree, tree.root))
        /\ Len(KeysBelow(tree, tree.root)) = BagCardinality(inserted)

\* A tree of three or more leaves under an index root that has split.
C25_Witness ==
    /\ phase = "build"
    /\ BagCardinality(inserted) = MaxInserts
    /\ ~tree.nodes[tree.root].is_leaf
    /\ \E p \in 1..Len(tree.nodes) : ~tree.nodes[p].is_leaf /\ p # tree.root
    /\ \E i \in 1..MaxInserts - 1 :
           KeysBelow(tree, tree.root)[i] = KeysBelow(tree, tree.root)[i + 1]

\* C26: after any sequence of Tree::insert calls, in every index node with
\* separators s_0..s_(n-1) and children c_0..c_n every smoothed key below
\* c_i is <= s_i and every smoothed key below c_(i+1) is strictly greater
\* than s_i, also when inserted keys share the same smoothed form.
C26_SeparatorsBound ==
    phase = "build" =>
        \A p \in 1..Len(tree.nodes) :
            ~tree.nodes[p].is_leaf =>
                \A i \in 1..Len(tree.nodes[p].records) :
                    /\ \A j \in 1..Len(KeysBelow(tree, tree.nodes[p].children[i])) :
                           is_le(cmp(KeysBelow(tree, tree.nodes[p].children[i])[j],
                                     tree.nodes[p].records[i].key))
                    /\ \A j \in 1..Len(KeysBelow(tree, tree.nodes[p].children[i + 1])) :
                           cmp(KeysBelow(tree, tree.nodes[p].children[i + 1])[j],
                               tree.nodes[p].records[i].key) = "Greater"

\* The index of the least record of node that is not less than key under
\* the node's comparison, 0-based, with the ordering of key against that
\* record; the last index with Greater when every record is less.
LeastNotLess(node, key) ==
    IF \E i \in 1..Len(node.records) :
           is_le(KeyCmp(node.is_leaf, smooth(key), node.records[i].key))
    THEN LET i == CHOOSE i \in 1..Len(node.records) :
                      /\ is_le(KeyCmp(node.is_leaf, smooth(key), node.records[i].key))
                      /\ \A j \in 1..(i - 1) :
                             ~is_le(KeyCmp(node.is_leaf, smooth(key), node.records[j].key))
         IN  <<i - 1, KeyCmp(node.is_leaf, smooth(key), node.records[i].key)>>
    ELSE <<Len(node.records) - 1, "Greater">>

\* C27: Node::index_of(key) on a node with at least one record returns the
\* index of the least record that is not less than the key together with
\* the ordering of the key against that record, including when several
\* records compare equal to the key.
C27_IndexOfLeast ==
    phase = "build" =>
        \A p \in 1..Len(tree.nodes), key \in QueryNames :
            tree.nodes[p].records # <<>> =>
                index_of(tree.nodes[p], key) = LeastNotLess(tree.nodes[p], key)

\* C28: after any sequence of Tree::insert calls every node is well formed:
\* an index node has at least one record and exactly records.len() + 1
\* children, a leaf has at least one record (except the root of an empty
\* tree) and no in-memory children.
C28_NodesWellFormed ==
    phase = "build" =>
        \A p \in 1..Len(tree.nodes) :
            IF tree.nodes[p].is_leaf
            THEN /\ tree.nodes[p].children = <<>>
                 /\ (tree.nodes[p].records = <<>> =>
                        p = tree.root /\ BagCardinality(inserted) = 0)
            ELSE /\ Len(tree.nodes[p].records) >= 1
                 /\ Len(tree.nodes[p].children) = Len(tree.nodes[p].records) + 1

\* A tree whose root index node has split: two index nodes below a root.
C28_Witness ==
    /\ phase = "build"
    /\ ~tree.nodes[tree.root].is_leaf
    /\ \E p, q \in 1..Len(tree.nodes) :
           /\ p # q
           /\ ~tree.nodes[p].is_leaf /\ tree.nodes[p].parent = tree.root
           /\ ~tree.nodes[q].is_leaf /\ tree.nodes[q].parent = tree.root
           /\ Len(tree.nodes[p].children) = 2
           /\ Len(tree.nodes[q].children) = 2

\* The step is a Tree::insert that splits a leaf and no index node: one
\* leaf is added, and a new root when the leaf was the root.
LeafSplitStep ==
    /\ phase = "build"
    /\ Len(tree'.leaves) = Len(tree.leaves) + 1
    /\ Len(tree'.nodes) = Len(tree.nodes) + (IF tree.nodes[tree.root].is_leaf THEN 2 ELSE 1)

\* The new right-hand leaf of a leaf split and its parent.
NewLeaf == tree'.leaves[Len(tree'.leaves)]
NewLeafParent == tree'.nodes[tree'.nodes[NewLeaf].parent]

\* C29: when Tree::insert splits a leaf, the separator inserted into the
\* parent equals the smoothed form of the first key of the new right-hand
\* leaf.
C29_SeparatorIsRightFirst ==
    [][LeafSplitStep =>
          NewLeafParent.records[child_index_of(NewLeafParent, NewLeaf)].key
              = smooth(tree'.nodes[NewLeaf].records[1].key)]_vars

\* The place of node p in the order of emission of the last save.
PlaceOf(p) == CHOOSE i \in 1..Len(res.order) : res.order[i] = p

\* The reference Tree::write_to recorded on node p.
RefOf(p) == <<tree.nodes[p].offset, tree.nodes[p].zip_size>>

\* Every node of the entry tree was written exactly once, an index node
\* after all of its children and with their references as its child
\* pointers, the root last, and the root's reference is the pair
\* Beluga::save put into the footer.
WrittenInPostOrder ==
    /\ Len(res.order) = Len(tree.nodes)
    /\ {res.order[i] : i \in 1..Len(res.order)} = 1..Len(tree.nodes)
    /\ \A p \in 1..Len(tree.nodes) :
           /\ tree.nodes[p].offset >= file.head_len
           /\ ReadRef(file, RefOf(p)).ok
           /\ ReadRef(file, RefOf(p)).node.is_leaf = tree.nodes[p].is_leaf
           /\ ReadRef(file, RefOf(p)).node.records = tree.nodes[p].records
           /\ \A q \in 1..Len(tree.nodes) :
                  p # q => tree.nodes[p].offset # tree.nodes[q].offset
           /\ ~tree.nodes[p].is_leaf =>
                  /\ Len(ReadRef(file, RefOf(p)).children) = Len(tree.nodes[p].children)
                  /\ \A i \in 1..Len(tree.nodes[p].children) :
                         /\ ReadRef(file, RefOf(p)).children[i]
                                = RefOf(tree.nodes[p].children[i])
                         /\ PlaceOf(tree.nodes[p].children[i]) < PlaceOf(p)
    /\ res.order[Len(res.order)] = tree.root
    /\ EntryFile.entry_root = RefOf(tree.root)

\* C30 as stated: when Beluga::save calls Tree::write_to on a freshly built
\* tree, every node reachable from the root is written exactly once, every
\* index node after all of its children, each child pointer equals the
\* child's (offset, compressed size), the root is written last, and the
\* returned pair is the root's (offset, compressed size).
C30_AsStated == (phase = "saved" /\ res.op = "save") => WrittenInPostOrder

\* C30, amended: the same for a tree that holds at least one record; for
\* an empty tree nothing is written and the returned pair is (0, 0).
C30_PostOrderWrite ==
    (phase = "saved" /\ res.op = "save") =>
        IF tree.nodes[tree.root].records # <<>> THEN WrittenInPostOrder
        ELSE /\ res.order = <<>>
             /\ EntryFile.entry_root = <<0, 0>>
             /\ FileLen(file) = file.head_len + 24

\* A saved tree with an index node below the root.
C30_Witness ==
    /\ phase = "saved"
    /\ res.op = "save"
    /\ Len(res.order) >= 5
    /\ \E p \in 1..Len(tree.nodes) : ~tree.nodes[p].is_leaf /\ p # tree.root

\* The leaves below node ptr of tree t from left to right.
RECURSIVE LeavesBelow(_, _), LeavesBelowChildren(_, _, _)
LeavesBelow(t, ptr) ==
    IF t.nodes[ptr].is_leaf THEN <<ptr>>
    ELSE LeavesBelowChildren(t, t.nodes[ptr].children, 1)

LeavesBelowChildren(t, children, i) ==
    IF i > Len(children) THEN <<>>
    ELSE LeavesBelow(t, children[i]) \o LeavesBelowChildren(t, children, i + 1)

\* The leaves in the order the last save wrote them.
LeavesWritten == SelectSeq(res.order, LAMBDA p : tree.nodes[p].is_leaf)

\* The saved tree holds records, and its leaves were written from right to
\* left.
WrittenRightToLeft ==
    /\ phase = "saved"
    /\ res.op = "save"
    /\ tree.nodes[tree.root].records # <<>>
    /\ Len(LeavesWritten) = Len(LeavesBelow(tree, tree.root))
    /\ \A i \in 1..Len(LeavesWritten) :
           LeavesWritten[i] =
               LeavesBelow(tree, tree.root)[Len(LeavesWritten) + 1 - i]

\* The next-leaf pointer persisted with leaf p.
NextLeafOf(p) == ReadRef(file, RefOf(p)).children[1]

\* C31 as stated: leaves are written in right-to-left order and the
\* last-written leaf (the left-most one) is the leaf whose persisted
\* next-leaf pointer is (0,0).
C31_AsStated ==
    (phase = "saved" /\ res.op = "save" /\ tree.nodes[tree.root].records # <<>>) =>
        /\ WrittenRightToLeft
        /\ \A i \in 1..Len(LeavesWritten) :
               NextLeafOf(LeavesWritten[i]) = <<0, 0>> <=> i = Len(LeavesWritten)

\* C31, amended: leaves are written in right-to-left order; the
\* first-written leaf (the right-most one) is the leaf whose persisted
\* next-leaf pointer is (0,0), and every other leaf points at the leaf
\* written just before it, its right neighbour.
C31_FirstWrittenEndsChain ==
    (phase = "saved" /\ res.op = "save" /\ tree.nodes[tree.root].records # <<>>) =>
        /\ WrittenRightToLeft
        /\ \A i \in 1..Len(LeavesWritten) :
               NextLeafOf(LeavesWritten[i]) =
                   IF i = 1 THEN <<0, 0>> ELSE RefOf(LeavesWritten[i - 1])

\* A saved tree of three or more leaves.
C31_Witness == WrittenRightToLeft /\ Len(LeavesWritten) >= 3

\* The saved file has an empty entry tree: its entry root is (0, 0).
EmptyEntryTree == Dictionary_new(file, 0).entry.entry_root = <<0, 0>>

\* C32: on a dict file whose entry tree is empty (entry root (0,0)),
\* DictFile::search returns an empty list and DictFile::search_entry
\* returns None, without aborting.
C32_EmptyTreeFindsNothing ==
    (phase = "queried" /\ EmptyEntryTree) =>
        /\ res.op = "search" => res.status = "ok" /\ res.result = <<>>
        /\ res.op = "search_entry" => res.status = "ok" /\ res.ret = <<>>

\* The nodes met on the walk from ptr through the next pointers (forward)
\* or the prev pointers, at most fuel of them.
RECURSIVE NodesFrom(_, _, _, _)
NodesFrom(c, ptr, forward, fuel) ==
    IF ptr = 0 \/ fuel = 0 THEN {}
    ELSE {ptr} \cup NodesFrom(c, IF forward THEN c.nodes[ptr].next ELSE c.nodes[ptr].prev,
                              forward, fuel - 1)

\* C33: after any sequence of LruCache::put and resize calls the recency
\* list is a well-formed doubly linked list: head has no prev, tail has no
\* next, n.next.prev = n and n.prev.next = n for every linked node, and the
\* nodes reachable from head via next, the nodes reachable from tail via
\* prev, and the values of the map are the same set.
C33_ListWellFormed ==
    phase = "cache" =>
        /\ cache.head # 0 => cache.nodes[cache.head].prev = 0
        /\ cache.tail # 0 => cache.nodes[cache.tail].next = 0
        /\ \A n \in NodesFrom(cache, cache.head, TRUE, Len(cache.nodes) + 1) :
              /\ cache.nodes[n].next # 0 => cache.nodes[cache.nodes[n].next].prev = n
              /\ cache.nodes[n].prev # 0 => cache.nodes[cache.nodes[n].prev].next = n
        /\ NodesFrom(cache, cache.head, TRUE, Len(cache.nodes) + 1) = MapValues(cache.map)
        /\ NodesFrom(cache, cache.tail, FALSE, Len(cache.nodes) + 1) = MapValues(cache.map)

\* The sum of the sizes recorded in the nodes of the entries of the map.
RECURSIVE RecordedSize(_, _)
RecordedSize(c, i) ==
    IF i > Len(c.map) THEN 0
    ELSE c.nodes[c.map[i][2]].size + RecordedSize(c, i + 1)

\* C34: after any sequence of LruCache::put and resize calls, the field len
\* equals the sum of the sizes recorded for the entries currently in the
\* map.
C34_LenIsChargedTotal ==
    phase = "cache" => cache.len = RecordedSize(cache, 1)

\* p occurs exactly once in the sequence q.
OnceIn(q, p) == Cardinality({i \in 1..Len(q) : q[i] = p}) = 1

\* C35: after n calls of Tree::insert, the leaves list contains every leaf
\* of the tree exactly once and the multiset of (key, value) pairs over
\* those leaves equals the multiset inserted (record_num() = n): no split
\* loses or duplicates a record.
C35_LeavesHoldInserted ==
    phase = "build" =>
        /\ \A p \in 1..Len(tree.nodes) :
              tree.nodes[p].is_leaf => OnceIn(tree.leaves, p)
        /\ \A i \in 1..Len(tree.leaves) :
              OnceIn(LeavesBelow(tree, tree.root), tree.leaves[i])
        /\ Len(tree.leaves) = Len(LeavesBelow(tree, tree.root))
        /\ Len(Tree_traverse(tree)) = BagCardinality(inserted)
        /\ \A p \in EntryPairs : Count(Tree_traverse(tree), p) = CopiesIn(p, inserted)

\* Four entries, one of them twice, in a tree of three or more leaves.
C35_Witness ==
    /\ phase = "build"
    /\ BagCardinality(inserted) = MaxInserts
    /\ \E p \in EntryPairs : CopiesIn(p, inserted) >= 2
    /\ Len(tree.leaves) >= 3

\* The depths below node ptr at which the leaves are, ptr being at depth d.
RECURSIVE LeafDepths(_, _, _)
LeafDepths(t, ptr, d) ==
    IF t.nodes[ptr].is_leaf THEN {d}
    ELSE UNION {LeafDepths(t, t.nodes[ptr].children[i], d + 1) :
                   i \in 1..Len(t.nodes[ptr].children)}

\* C36: after any sequence of Tree::insert calls, all leaves are at the
\* same depth below the root.
C36_LeavesSameDepth ==
    phase = "build" => Cardinality(LeafDepths(tree, tree.root, 0)) = 1

\* A tree whose leaves are two levels below the root.
C36_Witness == phase = "build" /\ LeafDepths(tree, tree.root, 0) = {2}

\* C40: after any sequence of Tree::insert calls, every child's parent
\* back-reference points to the node that lists it in children (and the
\* root has none), so child_index_of(...).unwrap() in the split loop never
\* fails.
C40_ParentListsChild ==
    phase = "build" =>
        /\ tree.nodes[tree.root].parent = 0
        /\ \A p \in 1..Len(tree.nodes) :
              /\ \A i \in 1..Len(tree.nodes[p].children) :
                    tree.nodes[tree.nodes[p].children[i]].parent = p
              /\ p # tree.root =>
                    /\ tree.nodes[p].parent # 0
                    /\ OnceIn(tree.nodes[tree.nodes[p].parent].children, p)

\* A leaf that an index split has moved: its parent is an index node that
\* was made after the leaf.
C40_Witness ==
    /\ phase = "build"
    /\ \E p \in 1..Len(tree.nodes) :
           /\ tree.nodes[p].is_leaf
           /\ tree.nodes[p].parent > p
           /\ tree.nodes[p].parent # tree.root
           /\ tree.nodes[tree.nodes[p].parent].parent = tree.root

\* The handle id is registered in bookshelf b.
Registered(b, id) == \E i \in 1..Len(b.dictionaries) : b.dictionaries[i][1] = id

\* C38: handles returned by Bookshelf::add are pairwise distinct over the
\* whole life of the bookshelf and are not reused after remove or clear, so
\* a handle of a removed dictionary never addresses a dictionary added
\* later; remove of an unregistered handle leaves the registry unchanged.
C38_HandlesNeverReused ==
    [][(res.op = "shelf" /\ res'.op = "shelf") =>
          /\ \A i, j \in 1..Len(res'.issued) :
                i # j => res'.issued[i] # res'.issued[j]
          /\ \A i, j \in 1..Len(res'.dictionaries) :
                i # j => res'.dictionaries[i][1] # res'.dictionaries[j][1]
          /\ (res'.last.op = "add" /\ res'.last.ok) =>
                /\ \A i \in 1..Len(res.issued) : res.issued[i] # res'.last.ret[1]
                /\ res'.dictionaries =
                       Append(res.dictionaries,
                              <<res'.last.ret[1],
                                Dictionary_new_at(res'.last.path, res.cache_id).dict>>)
          /\ (res'.last.op = "remove" /\ ~Registered(res, res'.last.id)) =>
                /\ res'.dictionaries = res.dictionaries
                /\ res'.dict_id = res.dict_id
                /\ res'.cache_id = res.cache_id]_vars

\* An add that succeeds after a remove or clear took the dictionary of an
\* earlier handle off the registry.
C38_Witness ==
    /\ res.op = "shelf"
    /\ Len(res.issued) = 2
    /\ res.last.op = "add"
    /\ res.last.ok
    /\ Len(res.dictionaries) = 1

\* Every call has returned.
AllReturned == \A p \in DOMAIN res.calls : res.calls[p].pc = "done"

\* C37: in any interleaving of concurrent get_node calls sharing one cache,
\* no call requests the exclusive guard while it still holds the shared
\* guard, and under fair scheduling every call eventually returns.
C37_NoUpgradeAndAllReturn ==
    /\ [](phase = "conc" =>
             \A p \in DOMAIN res.calls :
                 res.calls[p].pc \in {"want", "excl"} => p \notin res.readers)
    /\ <>AllReturned

\* A call waits for the exclusive guard while another call holds the
\* shared guard and a third holds nothing and has yet to ask.
C37_Witness ==
    /\ phase = "conc"
    /\ \E p, q, r \in DOMAIN res.calls :
          /\ res.calls[p].pc = "want"
          /\ q \in res.readers
          /\ res.calls[r].pc = "start"

(***************************************************************************)
(* Laputa (laputa.rs): the older builder, a tree of words whose node limits *)
(* are constants.  tree holds the Laputa: nodes (the arena), root and       *)
(* node_count; entry_num is metadata.word_number; res.status is "panic"     *)
(* once input_word has aborted.                                             *)
(***************************************************************************)
LAPUTA_LEAF_NODE_SIZE == 32768
LAPUTA_INDEX_NODE_SIZE == 32768

\* The number of input_word calls.
MaxWords == 4

\* Word::with_value and Word::new.
Word_with_value(key, value) == [key |-> key, value |-> value, lower_key |-> to_lowercase(key)]
Word_new(key) == Word_with_value(key, <<>>)

\* Word::size.
Word_size(word) == 4 + 4 + Len(word.key) + Len(word.value)

\* The loop of Word::compare over the characters of two lower keys that
\* differ at some place both have: 1 or -1 by the first such place.
RECURSIVE CompareFrom(_, _, _)
CompareFrom(a, b, i) ==
    IF a[i] > b[i] THEN 1
    ELSE IF a[i] < b[i] THEN -1
    ELSE CompareFrom(a, b, i + 1)

\* Word::compare on the lower keys a and b, n being the shorter length: by
\* the first place where they differ, else by their lengths.
CompareKeys(a, b, n) ==
    IF SubSeq(a, 1, n) # SubSeq(b, 1, n) THEN CompareFrom(a, b, 1)
    ELSE IF Len(a) > n THEN 1
    ELSE IF Len(b) > n THEN -1
    ELSE 0

\* Word::compare: 1, -1 or 0.
Word_compare(self, other) ==
    CompareKeys(self.lower_key, other.lower_key,
                IF Len(self.lower_key) < Len(other.lower_key) THEN Len(self.lower_key)
                ELSE Len(other.lower_key))

\* Node::new and Node::with_data of laputa.rs.
LaputaNode_with_data(words, children) ==
    [words |-> words, children |-> children, parent |-> 0, offset |-> 0,
     compressed_size |-> 0]
LaputaNode_new == LaputaNode_with_data(<<>>, <<>>)

RECURSIVE SumWordSizes(_)
SumWordSizes(words) ==
    IF words = <<>> THEN 0 ELSE Word_size(Head(words)) + SumWordSizes(Tail(words))

\* Node::size of laputa.rs.
LaputaNode_size(node) ==
    8 + SumWordSizes(node.words)
      + (IF Len(node.children) = 0 THEN 12 ELSE 12 * Len(node.children))

\* Node::is_leaf of laputa.rs.
LaputaNode_is_leaf(node) == Len(node.children) = 0

\* The loop of Node::index_of of laputa.rs; li, mi, hi are 0-based and c is
\* words[mi].compare(word).
RECURSIVE LaputaIndexOfLoop(_, _, _, _)
LaputaIndexOfStep(words, word, li, hi, mi, c) ==
    IF c = 0 THEN <<mi, c>>
    ELSE IF (IF c > 0 THEN mi ELSE hi) = (IF c < 0 THEN mi ELSE li)
    THEN <<IF c > 0 THEN mi ELSE hi, c>>
    ELSE IF (IF c > 0 THEN mi ELSE hi) - (IF c < 0 THEN mi ELSE li) = 1 THEN
        IF c > 0
        THEN (IF Word_compare(words[li + 1], word) >= 0
              THEN <<li, Word_compare(words[li + 1], word)>>
              ELSE <<mi, 1>>)
        ELSE <<hi, Word_compare(words[hi + 1], word)>>
    ELSE LaputaIndexOfLoop(words, word, IF c < 0 THEN mi ELSE li, IF c > 0 THEN mi ELSE hi)

LaputaIndexOfLoop(words, word, li, hi) ==
    LaputaIndexOfStep(words, word, li, hi, (hi + li) \div 2,
                      Word_compare(words[(hi + li) \div 2 + 1], word))

\* Node::index_of of laputa.rs on a node with at least one word (words.len()
\* - 1 underflows on a node without words: input_word treats that as a
\* panic).
LaputaNode_index_of(node, word) == LaputaIndexOfLoop(node.words, word, 0, Len(node.words) - 1)

\* Node::child_index, 0-based.
LaputaNode_child_index(node, child) ==
    (CHOOSE i \in 1..Len(node.children) :
        /\ node.children[i] = child
        /\ \A j \in 1..(i - 1) : node.children[j] # child) - 1

\* Laputa::new.
Laputa_new == [nodes |-> <<LaputaNode_new>>, root |-> 1, node_count |-> 1]

\* The descent loop of input_word: the leaf reached from node_ref, or 0
\* when index_of is called on an index node without words.
RECURSIVE LaputaDescend(_, _, _)
LaputaDescendStep(nodes, node_ref, word, r) ==
    LaputaDescend(nodes, nodes[node_ref].children[(IF r[2] >= 0 THEN r[1] ELSE r[1] + 1) + 1],
                  word)

LaputaDescend(nodes, node_ref, word) ==
    IF LaputaNode_is_leaf(nodes[node_ref]) THEN node_ref
    ELSE IF nodes[node_ref].words = <<>> THEN 0
    ELSE LaputaDescendStep(nodes, node_ref, word, LaputaNode_index_of(nodes[node_ref], word))

\* The leaf division of input_word for leaf div_node_ref, div_index being
\* words.len() / 2: the Laputa after it and the node the loop continues
\* with (0 when input_word returns).
LaputaDivideLeaf(t, div_node_ref, div_index) ==
    LET div_node == t.nodes[div_node_ref]
        words == SubSeq(div_node.words, div_index + 1, Len(div_node.words))
        new_leaf_ref == Len(t.nodes) + 1
        new_parent_key == words[1].key
    IN  IF div_node.parent # 0 THEN
            LET node_index == LaputaNode_child_index(t.nodes[div_node.parent], div_node_ref)
            IN  [t |-> [t EXCEPT
                     !.nodes = Append([@ EXCEPT
                         ![div_node_ref].words = SubSeq(@, 1, div_index),
                         ![div_node.parent].words =
                             VecInsert(@, node_index, Word_new(new_parent_key)),
                         ![div_node.parent].children =
                             VecInsert(@, node_index + 1, new_leaf_ref)],
                         [LaputaNode_with_data(words, <<>>) EXCEPT
                             !.parent = div_node.parent]),
                     !.node_count = @ + 1],
                 next |-> div_node.parent]
        ELSE
            [t |-> [t EXCEPT
                 !.nodes = [@ EXCEPT
                     ![div_node_ref].words = SubSeq(@, 1, div_index),
                     ![div_node_ref].parent = Len(t.nodes) + 2]
                     \o <<[LaputaNode_with_data(words, <<>>) EXCEPT
                             !.parent = Len(t.nodes) + 2],
                          LaputaNode_with_data(<<Word_new(new_parent_key)>>,
                                               <<div_node_ref, new_leaf_ref>>)>>,
                 !.root = Len(t.nodes) + 2,
                 !.node_count = @ + 2],
             next |-> 0]

\* The index division of input_word for index node div_node_ref, div_index
\* being words.len() / 2 + 1.
LaputaDivideIndex(t, div_node_ref, div_index) ==
    LET div_node == t.nodes[div_node_ref]
        words == SubSeq(div_node.words, div_index + 1, Len(div_node.words))
        pword == div_node.words[div_index]
        children == SubSeq(div_node.children, div_index + 1, Len(div_node.children))
        new_index_ref == Len(t.nodes) + 1
        moved == {children[i] : i \in 1..Len(children)}
        parent == IF div_node.parent # 0 THEN div_node.parent ELSE Len(t.nodes) + 2
        nodes1 == [p \in DOMAIN t.nodes |->
            IF p = div_node_ref THEN
                [div_node EXCEPT !.words = SubSeq(@, 1, div_index - 1),
                                 !.children = SubSeq(@, 1, div_index),
                                 !.parent = parent]
            ELSE IF p = div_node.parent THEN
                [t.nodes[p] EXCEPT
                    !.words = VecInsert(@, LaputaNode_child_index(t.nodes[p], div_node_ref),
                                        pword),
                    !.children = VecInsert(@, LaputaNode_child_index(t.nodes[p], div_node_ref) + 1,
                                           new_index_ref)]
            ELSE IF p \in moved THEN [t.nodes[p] EXCEPT !.parent = new_index_ref]
            ELSE t.nodes[p]]
        new_index == [LaputaNode_with_data(words, children) EXCEPT !.parent = parent]
    IN  IF div_node.parent # 0 THEN
            [t |-> [t EXCEPT !.nodes = Append(nodes1, new_index),
                             !.node_count = @ + 1],
             next |-> div_node.parent]
        ELSE
            [t |-> [t EXCEPT
                 !.nodes = nodes1 \o
                     <<new_index,
                       LaputaNode_with_data(<<pword>>, <<div_node_ref, new_index_ref>>)>>,
                 !.root = Len(t.nodes) + 2,
                 !.node_count = @ + 2],
             next |-> 0]

\* The division loop of input_word, walking up from the leaf the word went
\* into.
RECURSIVE LaputaDivideLoop(_, _)
LaputaDivided(s) == IF s.next = 0 THEN s.t ELSE LaputaDivideLoop(s.t, s.next)

LaputaDivideLoop(t, div_node_ref) ==
    IF LaputaNode_is_leaf(t.nodes[div_node_ref]) THEN
        IF LaputaNode_size(t.nodes[div_node_ref]) > LAPUTA_LEAF_NODE_SIZE
        THEN LaputaDivided(LaputaDivideLeaf(t, div_node_ref,
                                            Len(t.nodes[div_node_ref].words) \div 2))
        ELSE t
    ELSE IF LaputaNode_size(t.nodes[div_node_ref]) > LAPUTA_INDEX_NODE_SIZE
    THEN LaputaDivided(LaputaDivideIndex(t, div_node_ref,
                                         Len(t.nodes[div_node_ref].words) \div 2 + 1))
    ELSE t

\* input_word once the descent has reached leaf node_ref, r being
\* node.index_of(word) in that leaf.
LaputaInsertAt(t, node_ref, word, r) ==
    LaputaDivideLoop([t EXCEPT !.nodes[node_ref].words =
                         VecInsert(@, IF r[2] >= 0 THEN r[1] ELSE r[1] + 1, word)],
                     node_ref)

\* input_word after the descent from the root: node_ref = 0 is the panic.
LaputaInsertInto(t, node_ref, word) ==
    IF node_ref = 0 THEN [t |-> t, status |-> "panic"]
    ELSE [t |-> LaputaInsertAt(t, node_ref, word,
                               LaputaNode_index_of(t.nodes[node_ref], word)),
          status |-> "ok"]

\* Laputa::input_word(name, value), word being Word::with_value(name,
\* value): the Laputa after the call and whether the call returned ("ok")
\* or aborted ("panic").
Laputa_input_word(t, word) ==
    IF Len(t.nodes[t.root].words) = 0
    THEN [t |-> [t EXCEPT !.nodes[t.root].words = <<word>>], status |-> "ok"]
    ELSE LaputaInsertInto(t, LaputaDescend(t.nodes, t.root, word), word)

\* A key that by itself is larger than a node may be: first, then x up to
\* the length of the node limit.
LongKey(first) == [i \in 1..LAPUTA_LEAF_NODE_SIZE |-> IF i = 1 THEN first ELSE 120]

\* The words given to input_word: "a", "b" and "c" with one-byte values, and
\* two words with long keys.
LaputaWords ==
    { <<<<97>>, <<49>>>>, <<<<98>>, <<50>>>>, <<<<99>>, <<51>>>>,
      <<LongKey(107), <<52>>>>, <<LongKey(109), <<53>>>> }

InitLaputa ==
    /\ tree = Laputa_new
    /\ token_tree = Tree_new(INDEX_NODE_SIZE, LEAF_NODE_SIZE)
    /\ entry_num = 0
    /\ inserted = EmptyBag
    /\ phase = "laputa"
    /\ file = NoFile
    /\ cache = LruCache_new(0)
    /\ res = [op |-> "new", status |-> "ok"]

\* Laputa::input_word(name, value).
LaputaInputWord ==
    /\ phase = "laputa"
    /\ res.status = "ok"
    /\ entry_num < MaxWords
    /\ \E w \in LaputaWords :
       \E word \in {Word_with_value(w[1], w[2])} :
       \E r \in {Laputa_input_word(tree, word)} :
          /\ tree' = r.t
          /\ res' = [op |-> "input_word", status |-> r.status]
          /\ inserted' = inserted (+) SetToBag({<<Len(w[1]), w[1][1], w[2]>>})
    /\ entry_num' = entry_num + 1
    /\ UNCHANGED <<token_tree, phase, file, cache>>

NextLaputa == LaputaInputWord

SpecLaputa == InitLaputa /\ [][NextLaputa]_vars

\* C39: after any sequence of Laputa::input_word calls, every node of the
\* Laputa tree holds at least one word and every index node has
\* words.len() + 1 children, including after inserting a word whose encoded
\* size alone exceeds the 32 KiB node limit.
C39_LaputaNodesWellFormed ==
    (phase = "laputa" /\ entry_num > 0) =>
        /\ res.status = "ok"
        /\ \A p \in 1..Len(tree.nodes) :
              /\ Len(tree.nodes[p].words) >= 1
              /\ ~LaputaNode_is_leaf(tree.nodes[p]) =>
                    Len(tree.nodes[p].children) = Len(tree.nodes[p].words) + 1

====
